---- MODULE Spec2Model ----
(***************************************************************************)
(* A model of the arena server's rating engine (leaderboard_ratings.rs),  *)
(* its matchmaker (leaderboard_matchmaker.rs) and the leaderboard tables  *)
(* they share (models/leaderboard.rs).                                     *)
(*                                                                         *)
(* The database is PostgreSQL at its default isolation level, READ        *)
(* COMMITTED: every statement sees the rows committed when it starts plus *)
(* the writes of its own transaction; SELECT ... FOR UPDATE and UPDATE    *)
(* wait for the row lock and then read the newest committed version of    *)
(* the row; INSERT ... ON CONFLICT DO NOTHING waits for an uncommitted    *)
(* insert of the same key by another transaction.  A transaction that is  *)
(* dropped without commit is rolled back.                                  *)
(*                                                                         *)
(* Numbers: mu, sigma and display_score are f64 in the program and        *)
(* integers here.                                                          *)
(***************************************************************************)
EXTENDS Integers, Sequences, FiniteSets, TLC

\* ------------------------------------------------------------------ bounds

\* The number of matchmaker runs one behaviour holds.
MaxCycles == 1

\* The longest list of entries select_match is called with on its own.
MaxEntries == 5

\* The number of snakes on the board request_moves_parallel is called with.
MaxSnakes == 2

\* The turns after which the rules simulator has ended every match.
MaxTurns == 2

\* The number of update_ratings invocations (first deliveries and retries of
\* the at-least-once job queue) one behaviour holds.
MaxRuns == 3

\* The number of direct calls of update_game_statuses_sync one behaviour holds.
MaxUpdates == 3

\* The worker tasks that run jobs concurrently.
Workers == {1, 2}

\* SQL NULL / Rust None for ids and placements.
NULL == 0

\* ------------------------------------------------------------- table rows

\* A leaderboard_entries row as the tests of the rating engine build it.
make_entry(leaderboard_id, battlesnake_id, mu, sigma) ==
    [leaderboard_id |-> leaderboard_id, battlesnake_id |-> battlesnake_id,
     mu |-> mu, sigma |-> sigma, display_score |-> mu - 3 * sigma,
     games_played |-> 0, first_place_finishes |-> 0, non_first_finishes |-> 0,
     disabled |-> FALSE]

\* A game_battlesnakes join row.
JoinRow(entry_id, snake_id, placement) ==
    [leaderboard_entry_id |-> entry_id, battlesnake_id |-> snake_id,
     placement |-> placement]

VARIABLES
    leaderboard_entries,       \* committed table: entry id -> row
    leaderboard_games,         \* committed table: leaderboard game id -> row
    game_battlesnakes,         \* committed table: game id -> join rows, in fetch order
    leaderboard_game_results,  \* committed table: set of audit rows
    row_lock,                  \* entry id -> the worker whose transaction locks the row, or 0
    pc,                        \* worker -> its place in update_ratings
    job,                       \* worker -> the leaderboard_game_id of its job
    run_id,                    \* worker -> the number of its invocation
    idx,                       \* worker -> loop index
    entries_with_placements,   \* worker -> the locked entries read so far
    updates,                   \* worker -> the computed RatingUpdates
    tx_entries,                \* worker -> uncommitted entry rows of its transaction
    tx_results,                \* worker -> uncommitted audit rows of its transaction
    outcome,                   \* worker -> what its last invocation returned
    runs,                      \* invocations started so far
    error_count,               \* leaderboard game id -> failed runs of its job
    leaderboards,              \* committed table: leaderboard id -> row
    games,                     \* committed table: game id -> row
    jobs,                      \* the job queue: the game ids of the enqueued GameRunnerJobs
    mm_pc,                     \* the matchmaker's place in run_matchmaker
    mm_cycle,                  \* matchmaker runs started so far
    mm_lbs,                    \* the active leaderboards the run fetched
    mm_lb,                     \* index of the leaderboard being processed
    mm_entries,                \* the active entries fetched for that leaderboard
    mm_k,                      \* iterations of the games_per_run loop completed
    mm_selected,               \* the entries select_match returned
    mm_i,                      \* index into mm_selected
    mm_tx,                     \* the uncommitted rows of the matchmaker's transaction
    mm_game,                   \* the id of the game the last commit created
    mm_log,                    \* <<run, leaderboard id>> of every logged failure
    mm_result,                 \* what the last run_matchmaker returned
    q_games_per_day,           \* quota arithmetic: GAMES_PER_DAY
    q_interval,                \* quota arithmetic: MATCHMAKER_INTERVAL_SECS
    q_result,                  \* quota arithmetic: games_per_run, once computed
    s_entries,                 \* select_match: entries
    s_match_size,              \* select_match: match_size
    s_result,                  \* select_match: the Vec returned and the seed's score, once called
    c_snakes,                  \* request_moves_parallel: game.board.snakes
    c_snake_urls,              \* request_moves_parallel: snake_urls
    c_last_moves,              \* request_moves_parallel: last_moves
    c_results,                 \* request_moves_parallel: the Vec returned, once called
    t_pc,                      \* turn driver: its place in the match
    t_turn,                    \* turn driver: turns played
    t_snakes,                  \* turn driver: game.board.snakes
    t_snake_urls,              \* turn driver: snake_urls
    t_last_moves,              \* turn driver: last_moves of the fan-out in flight
    t_req,                     \* the futures of the fan-out in flight, in join_all order
    t_results,                 \* turn driver: what the last fan-out returned or logged
    t_server,                  \* snake id -> its server: "never" answers, "answers" all, or does "any"thing
    f_call,                    \* a pure function of the snake client being called: its name and arguments
    f_ret,                     \* what that call returned, once it has
    sdb_games,                 \* stress tester: the games table of its completion database, game id -> row
    cp_pc,                     \* completion_poller: its place, or the break that ended it
    cp_now,                    \* stress tester: the time, in seconds since polling started
    cp_tick,                   \* completion_poller: when its last tick fired
    cp_next_tick,              \* completion_poller: when its interval is due next
    cp_poll_interval,          \* completion_poller: poll_interval
    cp_poll_timeout,           \* completion_poller: poll_timeout
    cp_cancel_at,              \* completion_poller: when its token is cancelled, if ever
    cp_admin_stats_available,  \* completion_poller: admin_stats_available
    cp_log                     \* completion_poller: what its last tick logged

ratingVars == <<leaderboard_entries, leaderboard_game_results, row_lock, pc, job,
                run_id, idx, entries_with_placements, updates, tx_entries,
                tx_results, outcome, runs, error_count>>

gameVars == <<leaderboard_games, game_battlesnakes, games, leaderboards, jobs>>

mmVars == <<mm_pc, mm_cycle, mm_lbs, mm_lb, mm_entries, mm_k, mm_selected, mm_i,
            mm_tx, mm_game, mm_log, mm_result>>

quotaVars == <<q_games_per_day, q_interval, q_result>>

selectVars == <<s_entries, s_match_size, s_result>>

\* The inputs and results of the pure functions checked on their own.
clientVars == <<c_snakes, c_snake_urls, c_last_moves, c_results>>

turnVars == <<t_pc, t_turn, t_snakes, t_snake_urls, t_last_moves, t_req, t_results, t_server>>

callVars == <<f_call, f_ret>>

stressVars == <<sdb_games, cp_pc, cp_now, cp_tick, cp_next_tick, cp_poll_interval,
                cp_poll_timeout, cp_cancel_at, cp_admin_stats_available, cp_log>>

fnVars == <<quotaVars, selectVars, clientVars, turnVars, callVars, stressVars>>

\* What update_ratings and set_disabled never write.
outside == <<gameVars, mmVars, fnVars>>

vars == <<ratingVars, gameVars, mmVars, fnVars>>

\* -------------------------------------------------------------- constants

\* models/leaderboard.rs
MATCH_SIZE == 4

GAMES_PER_DAY == 100

\* cron.rs (default 900)
MATCHMAKER_INTERVAL_SECS == 900

\* 24 * 60 * 60
SECS_PER_DAY == 24 * 60 * 60

\* ------------------------------------------------------- pure computation

\* The quota computed with a division that rounds down.
games_per_run_floor(games_per_day, interval_secs) ==
    LET n == games_per_day \div (SECS_PER_DAY \div interval_secs)
    IN [value |-> IF n > 1 THEN n ELSE 1]

\* Lines 58-59 of leaderboard_matchmaker.rs: how many games one run creates
\* per leaderboard.  Integer division truncates; dividing by zero panics.
games_per_run(games_per_day, interval_secs) ==
    IF interval_secs = 0
    THEN [panicked |-> TRUE]
    ELSE LET runs_per_day == SECS_PER_DAY \div interval_secs
         IN IF runs_per_day = 0
            THEN [panicked |-> TRUE]
            ELSE LET n == (games_per_day + runs_per_day - 1) \div runs_per_day
                 IN [value |-> IF n > 1 THEN n ELSE 1]

\* The elements of a sequence.
Range(seq) == {seq[i] : i \in 1..Len(seq)}

\* slice::sort_by with a comparator that compares key[a] with key[b]
\* ascending.  The sort is stable: InsertStable puts x behind every element
\* whose key is not greater.
RECURSIVE InsertStable(_, _, _)
InsertStable(key, x, sorted) ==
    IF sorted = <<>> THEN <<x>>
    ELSE IF key[x] < key[Head(sorted)] THEN <<x>> \o sorted
    ELSE <<Head(sorted)>> \o InsertStable(key, x, Tail(sorted))

RECURSIVE SortBy(_, _)
SortBy(key, seq) ==
    IF seq = <<>> THEN <<>>
    ELSE InsertStable(key, seq[Len(seq)], SortBy(key, SubSeq(seq, 1, Len(seq) - 1)))

Abs(x) == IF x < 0 THEN -x ELSE x

\* select_match without the take(match_size).
select_match_takes_all(seed_idx, jitter, entries, match_size) ==
    IF Len(entries) < match_size THEN <<>> ELSE entries

\* select_match that puts the seed first and then its nearest neighbours,
\* the seed (at distance 0) among them.
select_match_seed_first(seed_idx, jitter, entries, match_size) ==
    IF Len(entries) < match_size THEN <<>>
    ELSE
      LET ByScoreDesc == [a \in Range(entries) |-> -a.display_score]
          sorted == SortBy(ByScoreDesc, entries)
          seed_score == sorted[seed_idx].display_score
          candidates == [i \in 1..Len(sorted) |->
                            [i |-> i,
                             d |-> Abs(sorted[i].display_score - seed_score)
                                   + jitter[i]]]
          ByDistance == [a \in Range(candidates) |-> a.d]
          closest == SortBy(ByDistance, candidates)
      IN [k \in 1..match_size |->
            IF k = 1 THEN sorted[seed_idx] ELSE sorted[closest[k - 1].i]]

\* select_match with the values its rng yields: seed_idx from
\* gen_range(0..len) (here 1..len) and jitter[i] from gen_range(0.0..5.0) for
\* the i-th entry of the sorted list.
select_match(seed_idx, jitter, entries, match_size) ==
    IF Len(entries) < match_size THEN <<>>
    ELSE
      LET ByScoreDesc == [a \in Range(entries) |-> -a.display_score]
          sorted == SortBy(ByScoreDesc, entries)
          seed_score == sorted[seed_idx].display_score
          candidates == [i \in 1..Len(sorted) |->
                            [i |-> i,
                             d |-> Abs(sorted[i].display_score - seed_score)
                                   + jitter[i]]]
          ByDistance == [a \in Range(candidates) |-> a.d]
          closest == SortBy(ByDistance, candidates)
      IN [k \in 1..match_size |-> sorted[closest[k].i]]

\* No transaction of the matchmaker is open.
NoTx == [open |-> FALSE, game |-> FALSE, participants |-> <<>>,
         enqueued_at |-> FALSE, leaderboard_game |-> FALSE]

\* The score of team i against team q, doubled: 2 when i placed better.
Score2(rank_i, rank_q) ==
    IF rank_q > rank_i THEN 2 ELSE IF rank_q = rank_i THEN 1 ELSE 0

\* The expected score of i against q, doubled, from the two means.
Expected2(mu_i, mu_q) ==
    IF mu_i > mu_q THEN 2 ELSE IF mu_i = mu_q THEN 1 ELSE 0

RECURSIVE SumOver(_, _, _)
SumOver(f, n, acc) ==
    IF n = 0 THEN acc ELSE SumOver(f, n - 1, acc + f[n])

\* skillratings::weng_lin::weng_lin_multi_team with one-player teams, as an
\* integer update of the same shape: every team is compared with every other
\* team, mu moves by the sum of (observed - expected) and sigma shrinks.
\* teams[i] = [rating, uncertainty, rank].
weng_lin_multi_team(teams) ==
    [i \in 1..Len(teams) |->
        LET Omega == [q \in 1..Len(teams) |->
                         IF q = i THEN 0
                         ELSE Score2(teams[i].rank, teams[q].rank)
                              - Expected2(teams[i].rating, teams[q].rating)]
        IN [rating |-> teams[i].rating + SumOver(Omega, Len(teams), 0),
            uncertainty |-> IF teams[i].uncertainty > 1
                            THEN teams[i].uncertainty - 1
                            ELSE teams[i].uncertainty]]

\* calculate_rating_updates that takes the first entry for the winner.
calculate_rating_updates_first_is_winner(ewp) ==
    LET ratings == [i \in 1..Len(ewp) |->
                      [rating |-> ewp[i].entry.mu,
                       uncertainty |-> ewp[i].entry.sigma,
                       rank |-> ewp[i].placement]]
        new_ratings == weng_lin_multi_team(ratings)
    IN [i \in 1..Len(ewp) |->
          LET entry == ewp[i].entry
              new_mu == new_ratings[i].rating
              new_sigma == new_ratings[i].uncertainty
              new_display_score == new_mu - 3 * new_sigma
              old_display_score == entry.mu - 3 * entry.sigma
          IN [leaderboard_entry_id |-> ewp[i].id,
              battlesnake_id |-> entry.battlesnake_id,
              placement |-> ewp[i].placement,
              old_mu |-> entry.mu,
              old_sigma |-> entry.sigma,
              new_mu |-> new_mu,
              new_sigma |-> new_sigma,
              new_display_score |-> new_display_score,
              display_score_change |-> new_display_score - old_display_score,
              is_first_place |-> (i = 1)]]

\* calculate_rating_updates: ewp[i] = [id, entry, placement].
calculate_rating_updates(ewp) ==
    LET ratings == [i \in 1..Len(ewp) |->
                      [rating |-> ewp[i].entry.mu,
                       uncertainty |-> ewp[i].entry.sigma,
                       rank |-> ewp[i].placement]]
        new_ratings == weng_lin_multi_team(ratings)
    IN [i \in 1..Len(ewp) |->
          LET entry == ewp[i].entry
              new_mu == new_ratings[i].rating
              new_sigma == new_ratings[i].uncertainty
              new_display_score == new_mu - 3 * new_sigma
              old_display_score == entry.mu - 3 * entry.sigma
          IN [leaderboard_entry_id |-> ewp[i].id,
              battlesnake_id |-> entry.battlesnake_id,
              placement |-> ewp[i].placement,
              old_mu |-> entry.mu,
              old_sigma |-> entry.sigma,
              new_mu |-> new_mu,
              new_sigma |-> new_sigma,
              new_display_score |-> new_display_score,
              display_score_change |-> new_display_score - old_display_score,
              is_first_place |-> (ewp[i].placement = 1)]]

\* ------------------------------------------------------------ the database


\* A count that never finds a row.
ExistingResults_never(rows, lg) == 0

\* SELECT COUNT(*) FROM leaderboard_game_results WHERE leaderboard_game_id = $1
\* over the rows a statement sees.
ExistingResults(rows, lg) ==
    Cardinality({r \in rows : r.leaderboard_game_id = lg})

\* The count on the pool: committed rows only.
CountGameResults(lg) == ExistingResults(leaderboard_game_results, lg)

\* The count inside worker p's transaction: committed rows and its own.
CountGameResultsInTx(p, lg) ==
    ExistingResults(leaderboard_game_results \cup tx_results[p], lg)

\* The version of entry row e that a statement of p's transaction reads.
CurrentRow(p, e) ==
    IF e \in DOMAIN tx_entries[p] THEN tx_entries[p][e] ELSE leaderboard_entries[e]

\* A lookup by the snake of the entry named: every entry of that snake on
\* the same leaderboard.
get_entry_for_update_by_id_same_snake(entry_id) ==
    {e \in DOMAIN leaderboard_entries :
        \E named \in DOMAIN leaderboard_entries :
            /\ named = entry_id
            /\ leaderboard_entries[e].leaderboard_id
                  = leaderboard_entries[named].leaderboard_id
            /\ leaderboard_entries[e].battlesnake_id
                  = leaderboard_entries[named].battlesnake_id}

\* The rows SELECT ... WHERE leaderboard_entry_id = $1 FOR UPDATE matches.
get_entry_for_update_by_id(entry_id) ==
    {e \in DOMAIN leaderboard_entries : e = entry_id}

\* The rows SELECT ... WHERE leaderboard_id = $1 AND battlesnake_id = $2
\* FOR UPDATE matches.
get_entry_for_update(leaderboard_id, battlesnake_id) ==
    {e \in DOMAIN leaderboard_entries :
        /\ leaderboard_entries[e].leaderboard_id = leaderboard_id
        /\ leaderboard_entries[e].battlesnake_id = battlesnake_id}


\* A plain SELECT: the clause is missing.
FOR_UPDATE_missing == FALSE

\* The FOR UPDATE clause of get_entry_for_update and get_entry_for_update_by_id.
FOR_UPDATE == TRUE

\* Whether p's transaction may lock every row of the set now.
CanLock(p, rows) == \A e \in rows : row_lock[e] \in {0, p}

LockRows(p, rows) == [e \in DOMAIN row_lock |-> IF e \in rows THEN p ELSE row_lock[e]]

ReleaseLocks(p) == [e \in DOMAIN row_lock |-> IF row_lock[e] = p THEN 0 ELSE row_lock[e]]


\* An UPDATE that counts every game as a non-first finish as well.
update_rating_both_counters(row, mu, sigma, display_score, is_first_place) ==
    [row EXCEPT !.mu = mu, !.sigma = sigma, !.display_score = display_score,
                !.games_played = @ + 1,
                !.first_place_finishes = @ + (IF is_first_place THEN 1 ELSE 0),
                !.non_first_finishes = @ + 1]

\* An UPDATE that leaves display_score out of its SET list.
update_rating_no_display(row, mu, sigma, display_score, is_first_place) ==
    [row EXCEPT !.mu = mu, !.sigma = sigma,
                !.games_played = @ + 1,
                !.first_place_finishes = @ + (IF is_first_place THEN 1 ELSE 0),
                !.non_first_finishes = @ + (IF is_first_place THEN 0 ELSE 1)]

\* The row update_rating's UPDATE writes over the current version of the row.
update_rating(row, mu, sigma, display_score, is_first_place) ==
    [row EXCEPT !.mu = mu, !.sigma = sigma, !.display_score = display_score,
                !.games_played = @ + 1,
                !.first_place_finishes = @ + (IF is_first_place THEN 1 ELSE 0),
                !.non_first_finishes = @ + (IF is_first_place THEN 0 ELSE 1)]

\* The audit row create_game_result inserts for an update.
GameResultRow(p, u) ==
    [leaderboard_game_result_id |-> <<run_id[p], idx[p]>>,
     leaderboard_game_id |-> job[p],
     leaderboard_entry_id |-> u.leaderboard_entry_id,
     placement |-> u.placement,
     mu_before |-> u.old_mu, mu_after |-> u.new_mu,
     sigma_before |-> u.old_sigma, sigma_after |-> u.new_sigma,
     display_score_change |-> u.display_score_change]

SameKey(r, row) ==
    /\ r.leaderboard_game_id = row.leaderboard_game_id
    /\ r.leaderboard_entry_id = row.leaderboard_entry_id

\* ON CONFLICT (leaderboard_game_id, leaderboard_entry_id): the row conflicts
\* with a row that p's statement sees.
Conflicts(p, row) ==
    \E r \in leaderboard_game_results \cup tx_results[p] : SameKey(r, row)

\* Another transaction holds an uncommitted insert of the same key: the
\* unique index makes the insert wait for it.
InsertWaits(p, row) ==
    \E q \in Workers \ {p} : \E r \in tx_results[q] : SameKey(r, row)


\* A plain INSERT into a table without the unique key.
create_game_result_plain(p, row) == tx_results[p] \cup {row}

\* create_game_result: the audit rows of p's transaction after the insert.
create_game_result(p, row) ==
    IF Conflicts(p, row) THEN tx_results[p] ELSE tx_results[p] \cup {row}

\* ------------------------------------------------- update_ratings, by step

GameSnakes(p) == game_battlesnakes[leaderboard_games[job[p]].game_id]


\* The statements ran on the pool, not on the transaction: returning keeps
\* what they wrote.
Return_keeps_writes(p, result) ==
    /\ pc' = [pc EXCEPT ![p] = "idle"]
    /\ outcome' = [outcome EXCEPT ![p] = result]
    /\ row_lock' = [e \in DOMAIN row_lock |-> IF row_lock[e] = p THEN 0 ELSE row_lock[e]]
    /\ leaderboard_entries' =
          [e \in DOMAIN leaderboard_entries |->
              IF e \in DOMAIN tx_entries[p] THEN tx_entries[p][e]
              ELSE leaderboard_entries[e]]
    /\ leaderboard_game_results' = leaderboard_game_results \cup tx_results[p]
    /\ tx_entries' = [tx_entries EXCEPT ![p] = <<>>]
    /\ tx_results' = [tx_results EXCEPT ![p] = {}]
    /\ idx' = [idx EXCEPT ![p] = 0]
    /\ entries_with_placements' = [entries_with_placements EXCEPT ![p] = <<>>]
    /\ updates' = [updates EXCEPT ![p] = <<>>]
    /\ error_count' = IF result = "Err"
                       THEN [error_count EXCEPT ![job[p]] = @ + 1]
                       ELSE error_count
    /\ UNCHANGED <<outside, job, run_id, runs>>

\* The function returns: its transaction, if any, is dropped (rolled back).
Return(p, result) ==
    /\ pc' = [pc EXCEPT ![p] = "idle"]
    /\ outcome' = [outcome EXCEPT ![p] = result]
    /\ row_lock' = ReleaseLocks(p)
    /\ tx_entries' = [tx_entries EXCEPT ![p] = <<>>]
    /\ tx_results' = [tx_results EXCEPT ![p] = {}]
    /\ idx' = [idx EXCEPT ![p] = 0]
    /\ entries_with_placements' = [entries_with_placements EXCEPT ![p] = <<>>]
    /\ updates' = [updates EXCEPT ![p] = <<>>]
    /\ error_count' = IF result = "Err"
                       THEN [error_count EXCEPT ![job[p]] = @ + 1]
                       ELSE error_count
    /\ UNCHANGED <<outside, leaderboard_entries, leaderboard_game_results, job, run_id, runs>>

Goto(p, label) == pc' = [pc EXCEPT ![p] = label]

\* The job queue hands UpdateRatingsJob { leaderboard_game_id: lg } to worker p.
StartJob(p, lg) ==
    /\ pc[p] = "idle"
    /\ runs < MaxRuns
    /\ runs' = runs + 1
    /\ run_id' = [run_id EXCEPT ![p] = runs + 1]
    /\ job' = [job EXCEPT ![p] = lg]
    /\ outcome' = [outcome EXCEPT ![p] = "running"]
    /\ Goto(p, "fast_path")
    /\ UNCHANGED <<outside, leaderboard_entries, leaderboard_game_results, row_lock, idx,
                   entries_with_placements, updates, tx_entries, tx_results,
                   error_count>>

\* Lines 88-103: the idempotency check on the pool.
FastPathCheck(p) ==
    /\ pc[p] = "fast_path"
    /\ IF CountGameResults(job[p]) > 0
       THEN Return(p, "Ok")
       ELSE /\ Goto(p, "fetch")
            /\ UNCHANGED <<outside, leaderboard_entries, leaderboard_game_results, row_lock,
                           job, run_id, idx, entries_with_placements, updates,
                           tx_entries, tx_results, outcome, runs, error_count>>

\* Lines 105-125: the leaderboard game and its join rows.
FetchGame(p) ==
    /\ pc[p] = "fetch"
    /\ IF job[p] \notin DOMAIN leaderboard_games
       THEN Return(p, "Err")
       ELSE IF Len(GameSnakes(p)) = 0
       THEN Return(p, "Ok")
       ELSE /\ Goto(p, "begin")
            /\ UNCHANGED <<outside, leaderboard_entries, leaderboard_game_results, row_lock,
                           job, run_id, idx, entries_with_placements, updates,
                           tx_entries, tx_results, outcome, runs, error_count>>

\* Lines 127-131: pool.begin().
BeginTx(p) ==
    /\ pc[p] = "begin"
    /\ Goto(p, "tx_check")
    /\ UNCHANGED <<outside, leaderboard_entries, leaderboard_game_results, row_lock,
                   job, run_id, idx, entries_with_placements, updates,
                   tx_entries, tx_results, outcome, runs, error_count>>

\* Lines 133-150: the idempotency check inside the transaction.
TxCheck(p) ==
    /\ pc[p] = "tx_check"
    /\ IF CountGameResultsInTx(p, job[p]) > 0
       THEN Return(p, "Ok")
       ELSE /\ Goto(p, "lock")
            /\ idx' = [idx EXCEPT ![p] = 1]
            /\ UNCHANGED <<outside, leaderboard_entries, leaderboard_game_results, row_lock,
                           job, run_id, entries_with_placements, updates,
                           tx_entries, tx_results, outcome, runs, error_count>>

\* The check that rates a single entry too.
AfterLookup_no_minimum(p, ewp, locks) ==
    IF Len(ewp) < 1
    THEN Return(p, "Ok")
    ELSE /\ Goto(p, "insert")
         /\ idx' = [idx EXCEPT ![p] = 1]
         /\ entries_with_placements' = [entries_with_placements EXCEPT ![p] = ewp]
         /\ updates' = [updates EXCEPT ![p] = calculate_rating_updates(ewp)]
         /\ row_lock' = locks
         /\ UNCHANGED <<outside, leaderboard_entries, leaderboard_game_results, job, run_id,
                        tx_entries, tx_results, outcome, runs, error_count>>

\* The check that gives up when any participant has no entry.
AfterLookup_requires_all(p, ewp, locks) ==
    IF Len(ewp) < Len(GameSnakes(p))
    THEN Return(p, "Ok")
    ELSE /\ Goto(p, "insert")
         /\ idx' = [idx EXCEPT ![p] = 1]
         /\ entries_with_placements' = [entries_with_placements EXCEPT ![p] = ewp]
         /\ updates' = [updates EXCEPT ![p] = calculate_rating_updates(ewp)]
         /\ row_lock' = locks
         /\ UNCHANGED <<outside, leaderboard_entries, leaderboard_game_results, job, run_id,
                        tx_entries, tx_results, outcome, runs, error_count>>

\* Lines 188-197, reached when the loop over game_snakes ends with ewp.
AfterLookup(p, ewp, locks) ==
    IF Len(ewp) < 2
    THEN Return(p, "Ok")
    ELSE /\ Goto(p, "insert")
         /\ idx' = [idx EXCEPT ![p] = 1]
         /\ entries_with_placements' = [entries_with_placements EXCEPT ![p] = ewp]
         /\ updates' = [updates EXCEPT ![p] = calculate_rating_updates(ewp)]
         /\ row_lock' = locks
         /\ UNCHANGED <<outside, leaderboard_entries, leaderboard_game_results, job, run_id,
                        tx_entries, tx_results, outcome, runs, error_count>>

\* The loop that takes a missing placement for a first place.
LockEntry_null_placement_first(p) ==
    /\ pc[p] = "lock"
    /\ LET game_snakes == GameSnakes(p)
           gs == game_snakes[idx[p]]
           placement == IF gs.placement = NULL THEN 1 ELSE gs.placement
           rows == IF gs.leaderboard_entry_id # NULL
                   THEN get_entry_for_update_by_id(gs.leaderboard_entry_id)
                   ELSE get_entry_for_update(leaderboard_games[job[p]].leaderboard_id,
                                             gs.battlesnake_id)
           Next_(ewp, locks) ==
               IF idx[p] = Len(game_snakes)
               THEN AfterLookup(p, ewp, locks)
               ELSE /\ idx' = [idx EXCEPT ![p] = @ + 1]
                    /\ entries_with_placements' =
                           [entries_with_placements EXCEPT ![p] = ewp]
                    /\ row_lock' = locks
                    /\ UNCHANGED <<outside, leaderboard_entries, leaderboard_game_results, pc,
                                   job, run_id, updates, tx_entries, tx_results,
                                   outcome, runs, error_count>>
       IN /\ FOR_UPDATE => CanLock(p, rows)
          /\ IF rows = {}
             THEN Next_(entries_with_placements[p], row_lock)
             ELSE \E e \in rows :
                    Next_(Append(entries_with_placements[p],
                                 [id |-> e, entry |-> CurrentRow(p, e),
                                  placement |-> placement]),
                          IF FOR_UPDATE THEN LockRows(p, rows) ELSE row_lock)

\* Lines 155-186: one iteration of the loop over game_snakes.
LockEntry(p) ==
    /\ pc[p] = "lock"
    /\ LET game_snakes == GameSnakes(p)
           gs == game_snakes[idx[p]]
           placement == IF gs.placement = NULL THEN Len(game_snakes) ELSE gs.placement
           rows == IF gs.leaderboard_entry_id # NULL
                   THEN get_entry_for_update_by_id(gs.leaderboard_entry_id)
                   ELSE get_entry_for_update(leaderboard_games[job[p]].leaderboard_id,
                                             gs.battlesnake_id)
           Next_(ewp, locks) ==
               IF idx[p] = Len(game_snakes)
               THEN AfterLookup(p, ewp, locks)
               ELSE /\ idx' = [idx EXCEPT ![p] = @ + 1]
                    /\ entries_with_placements' =
                           [entries_with_placements EXCEPT ![p] = ewp]
                    /\ row_lock' = locks
                    /\ UNCHANGED <<outside, leaderboard_entries, leaderboard_game_results, pc,
                                   job, run_id, updates, tx_entries, tx_results,
                                   outcome, runs, error_count>>
       IN /\ FOR_UPDATE => CanLock(p, rows)
          /\ IF rows = {}
             THEN Next_(entries_with_placements[p], row_lock)
             ELSE \E e \in rows :
                    Next_(Append(entries_with_placements[p],
                                 [id |-> e, entry |-> CurrentRow(p, e),
                                  placement |-> placement]),
                          IF FOR_UPDATE THEN LockRows(p, rows) ELSE row_lock)

\* Lines 200-216: the audit row of updates[idx].
InsertResult(p) ==
    /\ pc[p] = "insert"
    /\ LET row == GameResultRow(p, updates[p][idx[p]])
       IN /\ ~InsertWaits(p, row)
          /\ tx_results' = [tx_results EXCEPT ![p] = create_game_result(p, row)]
    /\ Goto(p, "update")
    /\ UNCHANGED <<outside, leaderboard_entries, leaderboard_game_results, row_lock, job,
                   run_id, idx, entries_with_placements, updates, tx_entries,
                   outcome, runs, error_count>>

\* Lines 218-228: the entry row of updates[idx].
UpdateRating(p) ==
    /\ pc[p] = "update"
    /\ LET u == updates[p][idx[p]]
           e == u.leaderboard_entry_id
           rows == IF e \in DOMAIN leaderboard_entries THEN {e} ELSE {}
       IN /\ CanLock(p, rows)
          /\ row_lock' = LockRows(p, rows)
          /\ tx_entries' =
               [tx_entries EXCEPT ![p] =
                  [x \in DOMAIN tx_entries[p] \cup rows |->
                     IF x \in rows
                     THEN update_rating(CurrentRow(p, x), u.new_mu, u.new_sigma,
                                        u.new_display_score, u.is_first_place)
                     ELSE tx_entries[p][x]]]
    /\ IF idx[p] = Len(updates[p])
       THEN Goto(p, "commit") /\ UNCHANGED idx
       ELSE Goto(p, "insert") /\ idx' = [idx EXCEPT ![p] = @ + 1]
    /\ UNCHANGED <<outside, leaderboard_entries, leaderboard_game_results, job, run_id,
                   entries_with_placements, updates, tx_results, outcome, runs, error_count>>

\* The committed entries table after p's transaction commits.
CommitEntries(p) ==
    [e \in DOMAIN leaderboard_entries |->
        IF e \in DOMAIN tx_entries[p] THEN tx_entries[p][e] ELSE leaderboard_entries[e]]

\* The committed audit table after p's transaction commits.
CommitResults(p) == leaderboard_game_results \cup tx_results[p]

\* Lines 241-253: tx.commit().
Commit(p) ==
    /\ pc[p] = "commit"
    /\ leaderboard_entries' = CommitEntries(p)
    /\ leaderboard_game_results' = CommitResults(p)
    /\ pc' = [pc EXCEPT ![p] = "idle"]
    /\ outcome' = [outcome EXCEPT ![p] = "Committed"]
    /\ row_lock' = ReleaseLocks(p)
    /\ tx_entries' = [tx_entries EXCEPT ![p] = <<>>]
    /\ tx_results' = [tx_results EXCEPT ![p] = {}]
    /\ idx' = [idx EXCEPT ![p] = 0]
    /\ entries_with_placements' = [entries_with_placements EXCEPT ![p] = <<>>]
    /\ updates' = [updates EXCEPT ![p] = <<>>]
    /\ UNCHANGED <<outside, job, run_id, runs, error_count>>

\* The steps of update_ratings that await the database.
DbSteps == {"fast_path", "fetch", "begin", "tx_check", "lock", "insert", "update",
            "commit"}

\* Any awaited database call fails (connection loss, deadlock abort, ...):
\* the `?` returns the error and the transaction, if begun, is rolled back.
DbError(p) ==
    /\ pc[p] \in DbSteps
    /\ Return(p, "Err")

\* set_disabled, as the leave and delete-entry routes call it on the pool:
\* UPDATE leaderboard_entries SET disabled_at = now() WHERE leaderboard_entry_id = $1.
\* The UPDATE waits while a transaction locks the row.
set_disabled(e) ==
    /\ e \in DOMAIN leaderboard_entries
    /\ row_lock[e] = 0
    /\ ~leaderboard_entries[e].disabled
    /\ leaderboard_entries' = [leaderboard_entries EXCEPT ![e].disabled = TRUE]
    /\ UNCHANGED <<outside, leaderboard_game_results, row_lock, pc, job, run_id, idx,
                   entries_with_placements, updates, tx_entries, tx_results,
                   outcome, runs, error_count>>

\* ------------------------------------------------------ matchmaker: tables

RECURSIVE SetToSeq(_)
\* The elements of a set of numbers in ascending order.
SetToSeq(S) ==
    IF S = {} THEN <<>>
    ELSE LET m == CHOOSE x \in S : \A y \in S : x <= y
         IN <<m>> \o SetToSeq(S \ {m})

\* The query without its disabled_at filter.
get_active_leaderboards_all ==
    SetToSeq(DOMAIN leaderboards)

\* get_active_leaderboards: WHERE disabled_at IS NULL ORDER BY created_at ASC
\* (ids are handed out in creation order).
get_active_leaderboards ==
    SetToSeq({l \in DOMAIN leaderboards : ~leaderboards[l].disabled})

\* The LeaderboardEntry struct of row e.
EntryOf(e) ==
    [leaderboard_entry_id |-> e,
     battlesnake_id |-> leaderboard_entries[e].battlesnake_id,
     display_score |-> leaderboard_entries[e].display_score]

\* The query without its disabled_at filter.
get_active_entries_with_disabled(leaderboard_id) ==
    LET ids == SetToSeq({e \in DOMAIN leaderboard_entries :
                            leaderboard_entries[e].leaderboard_id = leaderboard_id})
        rows == [i \in 1..Len(ids) |-> EntryOf(ids[i])]
        ByScoreDesc == [a \in Range(rows) |-> -a.display_score]
    IN SortBy(ByScoreDesc, rows)

\* get_active_entries: WHERE leaderboard_id = $1 AND disabled_at IS NULL
\* ORDER BY display_score DESC (rows of equal score in id order).
get_active_entries(leaderboard_id) ==
    LET ids == SetToSeq({e \in DOMAIN leaderboard_entries :
                            /\ leaderboard_entries[e].leaderboard_id = leaderboard_id
                            /\ ~leaderboard_entries[e].disabled})
        rows == [i \in 1..Len(ids) |-> EntryOf(ids[i])]
        ByScoreDesc == [a \in Range(rows) |-> -a.display_score]
    IN SortBy(ByScoreDesc, rows)

\* The jitter of gen_range(0.0..=5.0): the upper end is a value too.
Jitter_inclusive == {0, 5}

\* The values of the jitter the matchmaker's rng yields, in whole units.
Jitter == {0, 4}

\* ------------------------------------------------ run_matchmaker, by step

\* The leaderboard run_matchmaker_for_leaderboard is running for.
CurrentLeaderboard == mm_lbs[mm_lb]

\* run_matchmaker_for_leaderboard has returned: the loop of run_matchmaker
\* goes on with the next leaderboard, or run_matchmaker returns Ok.
NextLeaderboard ==
    /\ mm_entries' = <<>>
    /\ mm_k' = 0
    /\ mm_selected' = <<>>
    /\ mm_i' = 0
    /\ mm_tx' = NoTx
    /\ IF mm_lb < Len(mm_lbs)
       THEN /\ mm_lb' = mm_lb + 1
            /\ mm_pc' = "fetch_entries"
            /\ UNCHANGED <<mm_lbs, mm_result>>
       ELSE /\ mm_lb' = 0
            /\ mm_lbs' = <<>>
            /\ mm_pc' = "idle"
            /\ mm_result' = "Ok"

\* The cron job starts run_matchmaker.
MMRun ==
    /\ mm_pc = "idle"
    /\ mm_cycle < MaxCycles
    /\ mm_cycle' = mm_cycle + 1
    /\ mm_pc' = "fetch_leaderboards"
    /\ mm_result' = "running"
    /\ UNCHANGED <<ratingVars, gameVars, fnVars, mm_lbs, mm_lb, mm_entries, mm_k,
                   mm_selected, mm_i, mm_tx, mm_game, mm_log>>

\* Lines 18-22.
MMFetchLeaderboards ==
    /\ mm_pc = "fetch_leaderboards"
    /\ IF get_active_leaderboards = <<>>
       THEN /\ mm_pc' = "idle"
            /\ mm_result' = "Ok"
            /\ UNCHANGED <<mm_lbs, mm_lb>>
       ELSE /\ mm_lbs' = get_active_leaderboards
            /\ mm_lb' = 1
            /\ mm_pc' = "fetch_entries"
            /\ UNCHANGED mm_result
    /\ UNCHANGED <<ratingVars, gameVars, fnVars, mm_cycle, mm_entries, mm_k,
                   mm_selected, mm_i, mm_tx, mm_game, mm_log>>

\* Lines 18-20: fetching the leaderboards fails and run_matchmaker returns
\* the error.
MMFetchLeaderboardsError ==
    /\ mm_pc = "fetch_leaderboards"
    /\ mm_pc' = "idle"
    /\ mm_result' = "Err"
    /\ UNCHANGED <<ratingVars, gameVars, fnVars, mm_cycle, mm_lbs, mm_lb,
                   mm_entries, mm_k, mm_selected, mm_i, mm_tx, mm_game, mm_log>>

\* Lines 42-66.
MMFetchEntries ==
    /\ mm_pc = "fetch_entries"
    /\ LET entries == get_active_entries(CurrentLeaderboard)
       IN IF Len(entries) < MATCH_SIZE
          THEN NextLeaderboard
          ELSE /\ mm_entries' = entries
               /\ mm_k' = 0
               /\ mm_pc' = "select"
               /\ UNCHANGED <<mm_lbs, mm_lb, mm_selected, mm_i, mm_tx, mm_result>>
    /\ UNCHANGED <<ratingVars, gameVars, fnVars, mm_cycle, mm_game, mm_log>>

\* Lines 68-79: the head of the games_per_run loop, select_match and
\* pool.begin().
MMSelectAndBegin ==
    /\ mm_pc = "select"
    /\ IF mm_k >= games_per_run(GAMES_PER_DAY, MATCHMAKER_INTERVAL_SECS).value
       THEN NextLeaderboard
       ELSE \E seed_idx \in 1..Len(mm_entries) :
            \E jitter \in [1..Len(mm_entries) -> Jitter] :
              LET selected == select_match(seed_idx, jitter, mm_entries, MATCH_SIZE)
              IN IF Len(selected) < MATCH_SIZE
                 THEN NextLeaderboard
                 ELSE /\ mm_selected' = selected
                      /\ mm_tx' = [NoTx EXCEPT !.open = TRUE]
                      /\ mm_pc' = "create_game"
                      /\ UNCHANGED <<mm_lbs, mm_lb, mm_entries, mm_k, mm_i, mm_result>>
    /\ UNCHANGED <<ratingVars, gameVars, fnVars, mm_cycle, mm_game, mm_log>>

\* Lines 81-89: game::create_game on the transaction.
MMCreateGame ==
    /\ mm_pc = "create_game"
    /\ mm_tx' = [mm_tx EXCEPT !.game = TRUE]
    /\ mm_i' = 1
    /\ mm_pc' = "add_entry"
    /\ UNCHANGED <<ratingVars, gameVars, fnVars, mm_cycle, mm_lbs, mm_lb,
                   mm_entries, mm_k, mm_selected, mm_game, mm_log, mm_result>>

\* Lines 93-102: game::add_leaderboard_entry_to_game for selected[mm_i]: a
\* join row keyed by the entry id, without a battlesnake_id copy.
MMAddEntry ==
    /\ mm_pc = "add_entry"
    /\ mm_tx' = [mm_tx EXCEPT !.participants =
                    Append(@, JoinRow(mm_selected[mm_i].leaderboard_entry_id,
                                      NULL, NULL))]
    /\ IF mm_i = Len(mm_selected)
       THEN mm_pc' = "set_enqueued_at" /\ UNCHANGED mm_i
       ELSE mm_i' = mm_i + 1 /\ UNCHANGED mm_pc
    /\ UNCHANGED <<ratingVars, gameVars, fnVars, mm_cycle, mm_lbs, mm_lb,
                   mm_entries, mm_k, mm_selected, mm_game, mm_log, mm_result>>

\* Lines 104-106: game::set_game_enqueued_at_tx.
MMSetEnqueuedAt ==
    /\ mm_pc = "set_enqueued_at"
    /\ mm_tx' = [mm_tx EXCEPT !.enqueued_at = TRUE]
    /\ mm_pc' = "create_leaderboard_game"
    /\ UNCHANGED <<ratingVars, gameVars, fnVars, mm_cycle, mm_lbs, mm_lb,
                   mm_entries, mm_k, mm_selected, mm_i, mm_game, mm_log, mm_result>>

\* Lines 108-110: leaderboard::create_leaderboard_game on the transaction.
MMCreateLeaderboardGame ==
    /\ mm_pc = "create_leaderboard_game"
    /\ mm_tx' = [mm_tx EXCEPT !.leaderboard_game = TRUE]
    /\ mm_pc' = "commit"
    /\ UNCHANGED <<ratingVars, gameVars, fnVars, mm_cycle, mm_lbs, mm_lb,
                   mm_entries, mm_k, mm_selected, mm_i, mm_game, mm_log, mm_result>>

\* The id a new row of a table gets.
NewId(table) == Cardinality(DOMAIN table) + 1

\* The join rows of a game in the order get_battlesnakes_by_game_id returns
\* them: by entry id.
FetchOrder(rows) ==
    LET ByEntry == [a \in Range(rows) |-> a.leaderboard_entry_id]
    IN SortBy(ByEntry, rows)

\* The tables after the rows of the transaction tx are written to them.
WriteRows(tx, leaderboard_id) ==
    LET g == NewId(games)
        lg == NewId(leaderboard_games)
    IN /\ games' = IF tx.game
                   THEN [x \in DOMAIN games \cup {g} |->
                           IF x = g THEN [enqueued_at |-> tx.enqueued_at,
                                          created_at |-> mm_cycle]
                           ELSE games[x]]
                   ELSE games
       /\ game_battlesnakes' =
             IF tx.game
             THEN [x \in DOMAIN game_battlesnakes \cup {g} |->
                     IF x = g THEN FetchOrder(tx.participants)
                     ELSE game_battlesnakes[x]]
             ELSE game_battlesnakes
       /\ leaderboard_games' =
             IF tx.leaderboard_game
             THEN [x \in DOMAIN leaderboard_games \cup {lg} |->
                     IF x = lg THEN [leaderboard_id |-> leaderboard_id, game_id |-> g]
                     ELSE leaderboard_games[x]]
             ELSE leaderboard_games

\* Lines 112-114: tx.commit().
MMCommit ==
    /\ mm_pc = "commit"
    /\ WriteRows(mm_tx, CurrentLeaderboard)
    /\ mm_game' = NewId(games)
    /\ mm_tx' = NoTx
    /\ mm_pc' = "enqueue"
    /\ UNCHANGED <<ratingVars, fnVars, leaderboards, jobs, mm_cycle, mm_lbs, mm_lb,
                   mm_entries, mm_k, mm_selected, mm_i, mm_log, mm_result>>

\* Lines 116-134: the GameRunnerJob of the committed game is enqueued and
\* the loop goes round.
MMEnqueue ==
    /\ mm_pc = "enqueue"
    /\ jobs' = Append(jobs, mm_game)
    /\ mm_k' = mm_k + 1
    /\ mm_pc' = "select"
    /\ UNCHANGED <<ratingVars, fnVars, leaderboards, games, leaderboard_games,
                   game_battlesnakes, mm_cycle, mm_lbs, mm_lb, mm_entries,
                   mm_selected, mm_i, mm_tx, mm_game, mm_log, mm_result>>

\* The places at which run_matchmaker_for_leaderboard awaits the database or
\* the job queue.
MMAwaits == {"fetch_entries", "select", "create_game", "add_entry",
             "set_enqueued_at", "create_leaderboard_game", "commit", "enqueue"}

\* A failed run that leaves behind what its transaction had written.
MMDropTx_keeps_writes ==
    WriteRows(mm_tx, CurrentLeaderboard)

\* What becomes of the tables when run_matchmaker_for_leaderboard returns an
\* error: its transaction, if open, is dropped and rolled back.
MMDropTx ==
    UNCHANGED <<games, game_battlesnakes, leaderboard_games>>

\* The error of one leaderboard propagated out of run_matchmaker.
MMError_aborts ==
    /\ mm_pc \in MMAwaits
    /\ MMDropTx
    /\ mm_log' = mm_log \cup {<<mm_cycle, CurrentLeaderboard>>}
    /\ mm_pc' = "idle"
    /\ mm_result' = "Err"
    /\ mm_lb' = 0
    /\ mm_lbs' = <<>>
    /\ mm_entries' = <<>>
    /\ mm_k' = 0
    /\ mm_selected' = <<>>
    /\ mm_i' = 0
    /\ mm_tx' = NoTx
    /\ UNCHANGED <<ratingVars, fnVars, leaderboards, jobs, mm_cycle, mm_game>>

\* An awaited call of run_matchmaker_for_leaderboard fails: the `?` returns
\* the error, run_matchmaker logs it (lines 23-30) and goes on.
MMError ==
    /\ mm_pc \in MMAwaits
    /\ mm_pc = "select" =>
          mm_k < games_per_run(GAMES_PER_DAY, MATCHMAKER_INTERVAL_SECS).value
    /\ MMDropTx
    /\ mm_log' = mm_log \cup {<<mm_cycle, CurrentLeaderboard>>}
    /\ NextLeaderboard
    /\ UNCHANGED <<ratingVars, fnVars, leaderboards, jobs, mm_cycle, mm_game>>

\* ------------------------------------------------------------------- Init

\* Two finished rated games on leaderboard 1 that share entry 2.
InitGames ==
    /\ leaderboards = [l \in {1} |-> [disabled |-> FALSE]]
    /\ games = [g \in {1, 2} |-> [enqueued_at |-> TRUE, created_at |-> 0]]
    /\ jobs = <<>>
    /\ leaderboard_games = [lg \in {1, 2} |-> [leaderboard_id |-> 1, game_id |-> lg]]
    /\ game_battlesnakes =
         [g \in {1, 2} |->
            IF g = 1 THEN <<JoinRow(1, 1, 1), JoinRow(2, 2, 2)>>
                     ELSE <<JoinRow(2, 2, 1), JoinRow(3, 3, 2)>>]

InitRatings ==
    /\ leaderboard_entries = [e \in {1, 2, 3} |-> make_entry(1, e, 25, 8)]
    /\ leaderboard_game_results = {}
    /\ row_lock = [e \in {1, 2, 3} |-> 0]
    /\ pc = [p \in Workers |-> "idle"]
    /\ job = [p \in Workers |-> NULL]
    /\ run_id = [p \in Workers |-> 0]
    /\ idx = [p \in Workers |-> 0]
    /\ entries_with_placements = [p \in Workers |-> <<>>]
    /\ updates = [p \in Workers |-> <<>>]
    /\ tx_entries = [p \in Workers |-> <<>>]
    /\ tx_results = [p \in Workers |-> {}]
    /\ outcome = [p \in Workers |-> "none"]
    /\ runs = 0
    /\ error_count = [lg \in {1, 2} |-> 0]

\* The matchmaker is not running.
InitMatchmakerIdle ==
    /\ mm_pc = "idle"
    /\ mm_cycle = 0
    /\ mm_lbs = <<>>
    /\ mm_lb = 0
    /\ mm_entries = <<>>
    /\ mm_k = 0
    /\ mm_selected = <<>>
    /\ mm_i = 0
    /\ mm_tx = NoTx
    /\ mm_game = NULL
    /\ mm_log = {}
    /\ mm_result = "none"

\* The quota is the one of the program's constants.
InitQuotaOfProgram ==
    /\ q_games_per_day = GAMES_PER_DAY
    /\ q_interval = MATCHMAKER_INTERVAL_SECS
    /\ q_result = games_per_run(GAMES_PER_DAY, MATCHMAKER_INTERVAL_SECS)

\* select_match is not being called on its own.
InitSelectIdle ==
    /\ s_entries = <<>>
    /\ s_match_size = MATCH_SIZE
    /\ s_result = [pending |-> TRUE]

\* The snake client is not being called.
InitClientIdle ==
    /\ c_snakes = <<>>
    /\ c_snake_urls = <<>>
    /\ c_last_moves = <<>>
    /\ c_results = [pending |-> TRUE]

\* No match is being driven.
InitTurnsIdle ==
    /\ t_pc = "idle"
    /\ t_turn = 0
    /\ t_snakes = <<>>
    /\ t_snake_urls = <<>>
    /\ t_last_moves = <<>>
    /\ t_req = <<>>
    /\ t_results = <<>>
    /\ t_server = <<>>

\* No pure function of the snake client is being called on its own.
InitCallIdle ==
    /\ f_call = [fn |-> "none"]
    /\ f_ret = [pending |-> TRUE]

\* The stress tester is not running.
InitStressIdle ==
    /\ sdb_games = <<>>
    /\ cp_pc = "idle"
    /\ cp_now = 0
    /\ cp_tick = 0
    /\ cp_next_tick = 0
    /\ cp_poll_interval = 0
    /\ cp_poll_timeout = 0
    /\ cp_cancel_at = <<>>
    /\ cp_admin_stats_available = FALSE
    /\ cp_log = {}

Init == InitGames /\ InitRatings /\ InitMatchmakerIdle /\ InitQuotaOfProgram
        /\ InitSelectIdle /\ InitClientIdle /\ InitTurnsIdle /\ InitCallIdle
        /\ InitStressIdle

\* Any worker runs any rating job, concurrently with the other.
Next ==
    \/ \E p \in Workers, lg \in DOMAIN leaderboard_games : StartJob(p, lg)
    \/ \E p \in Workers : FastPathCheck(p)
    \/ \E p \in Workers : FetchGame(p)
    \/ \E p \in Workers : BeginTx(p)
    \/ \E p \in Workers : TxCheck(p)
    \/ \E p \in Workers : LockEntry(p)
    \/ \E p \in Workers : InsertResult(p)
    \/ \E p \in Workers : UpdateRating(p)
    \/ \E p \in Workers : Commit(p)
    \/ \E p \in Workers : DbError(p)
    \/ \E e \in DOMAIN leaderboard_entries : set_disabled(e)

Spec == Init /\ [][Next]_vars

\* One worker runs the rating jobs one after another: first deliveries and
\* sequential retries.
NextSeq ==
    \/ \E lg \in DOMAIN leaderboard_games : StartJob(1, lg)
    \/ FastPathCheck(1)
    \/ FetchGame(1)
    \/ BeginTx(1)
    \/ TxCheck(1)
    \/ LockEntry(1)
    \/ InsertResult(1)
    \/ UpdateRating(1)
    \/ Commit(1)
    \/ DbError(1)

SpecSeq == Init /\ [][NextSeq]_vars

\* Worker p runs the job of leaderboard game p only: the two games run
\* concurrently, each game's job one invocation at a time.
NextTwoGames ==
    \/ \E p \in Workers : StartJob(p, p)
    \/ \E p \in Workers : FastPathCheck(p)
    \/ \E p \in Workers : FetchGame(p)
    \/ \E p \in Workers : BeginTx(p)
    \/ \E p \in Workers : TxCheck(p)
    \/ \E p \in Workers : LockEntry(p)
    \/ \E p \in Workers : InsertResult(p)
    \/ \E p \in Workers : UpdateRating(p)
    \/ \E p \in Workers : Commit(p)
    \/ \E p \in Workers : DbError(p)

SpecTwoGames == Init /\ [][NextTwoGames]_vars

\* Two finished games of leaderboard 1 between the same two entries, whose
\* join rows come in opposite orders: entry 1 before entry 2 in game 1,
\* entry 2 before entry 1 in game 2.
InitShared ==
    /\ InitRatings /\ InitMatchmakerIdle /\ InitQuotaOfProgram
    /\ InitSelectIdle /\ InitClientIdle /\ InitTurnsIdle /\ InitCallIdle
    /\ InitStressIdle
    /\ leaderboards = [l \in {1} |-> [disabled |-> FALSE]]
    /\ games = [g \in {1, 2} |-> [enqueued_at |-> TRUE, created_at |-> 0]]
    /\ jobs = <<>>
    /\ leaderboard_games = [lg \in {1, 2} |-> [leaderboard_id |-> 1, game_id |-> lg]]
    /\ game_battlesnakes =
         [g \in {1, 2} |->
            IF g = 1 THEN <<JoinRow(1, 1, 1), JoinRow(2, 2, 2)>>
                     ELSE <<JoinRow(2, 2, 1), JoinRow(1, 1, 2)>>]

\* The jobs of the two games run concurrently, one worker each.
SpecShared == InitShared /\ [][NextTwoGames]_vars

\* ------------------------------------------- rating engine: entry lookup

\* Leaderboard 1 with four entries, two of them (2 and 4) of snake 2, and
\* four finished rated games.  Games 1, 2 and 4 were created before join rows
\* stored entry ids.  Game 1: snake 1 and snake 9, which has no entry.
\* Game 2: snakes 1, 9 and 3.  Game 3: entry 4 of snake 2 and entry 3, tied
\* for first place.  Game 4: snakes 2, 3 and 1, placed first, not placed and
\* third.
InitLookup ==
    /\ InitMatchmakerIdle /\ InitQuotaOfProgram /\ InitSelectIdle
    /\ InitClientIdle /\ InitTurnsIdle /\ InitCallIdle
    /\ InitStressIdle
    /\ leaderboards = [l \in {1} |-> [disabled |-> FALSE]]
    /\ games = [g \in 1..4 |-> [enqueued_at |-> TRUE, created_at |-> 0]]
    /\ jobs = <<>>
    /\ leaderboard_games = [lg \in 1..4 |-> [leaderboard_id |-> 1, game_id |-> lg]]
    /\ game_battlesnakes =
         [g \in 1..4 |->
            CASE g = 1 -> <<JoinRow(NULL, 1, 1), JoinRow(NULL, 9, 2)>>
              [] g = 2 -> <<JoinRow(NULL, 1, 1), JoinRow(NULL, 9, 2),
                            JoinRow(NULL, 3, 3)>>
              [] g = 3 -> <<JoinRow(4, 2, 1), JoinRow(3, 3, 1)>>
              [] OTHER -> <<JoinRow(NULL, 2, 1), JoinRow(NULL, 3, NULL),
                            JoinRow(NULL, 1, 3)>>]
    /\ leaderboard_entries =
         [e \in 1..4 |->
            CASE e = 1 -> make_entry(1, 1, 25, 8)
              [] e = 2 -> make_entry(1, 2, 30, 5)
              [] e = 3 -> make_entry(1, 3, 20, 8)
              [] OTHER -> make_entry(1, 2, 28, 2)]
    /\ leaderboard_game_results = {}
    /\ row_lock = [e \in 1..4 |-> 0]
    /\ pc = [p \in Workers |-> "idle"]
    /\ job = [p \in Workers |-> NULL]
    /\ run_id = [p \in Workers |-> 0]
    /\ idx = [p \in Workers |-> 0]
    /\ entries_with_placements = [p \in Workers |-> <<>>]
    /\ updates = [p \in Workers |-> <<>>]
    /\ tx_entries = [p \in Workers |-> <<>>]
    /\ tx_results = [p \in Workers |-> {}]
    /\ outcome = [p \in Workers |-> "none"]
    /\ runs = 0
    /\ error_count = [lg \in 1..4 |-> 0]

\* One worker runs the rating jobs one after another and no database call
\* fails.
NextLookup ==
    \/ \E lg \in DOMAIN leaderboard_games : StartJob(1, lg)
    \/ FastPathCheck(1)
    \/ FetchGame(1)
    \/ BeginTx(1)
    \/ TxCheck(1)
    \/ LockEntry(1)
    \/ InsertResult(1)
    \/ UpdateRating(1)
    \/ Commit(1)

SpecLookup == InitLookup /\ [][NextLookup]_vars

\* ----------------------------------------------------- matchmaker: Init

\* Leaderboard 1: five active entries and a disabled one.  Leaderboard 2:
\* four active entries.  Leaderboard 3: three active entries and a disabled
\* one.  Leaderboard 4, disabled: four active entries.
MMLeaderboardOf(e) ==
    IF e <= 6 THEN 1 ELSE IF e <= 10 THEN 2 ELSE IF e <= 14 THEN 3 ELSE 4

\* The mu of entry e; every sigma is 8.
MMScoreOf(e) ==
    IF e <= 6 THEN 25 + 6 * (e - 1)
    ELSE IF e <= 10 THEN 25 + 6 * (10 - e)
    ELSE 25 + (e % 3)

InitMatchmakerTables ==
    /\ leaderboards = [l \in 1..4 |-> [disabled |-> (l = 4)]]
    /\ leaderboard_entries =
          [e \in 1..18 |->
              [make_entry(MMLeaderboardOf(e), e, MMScoreOf(e), 8)
                  EXCEPT !.disabled = (e \in {6, 14})]]
    /\ games = <<>>
    /\ game_battlesnakes = <<>>
    /\ leaderboard_games = <<>>
    /\ jobs = <<>>

\* No rating job runs.
InitRatingsIdle ==
    /\ leaderboard_game_results = {}
    /\ row_lock = [e \in DOMAIN leaderboard_entries |-> 0]
    /\ pc = [p \in Workers |-> "idle"]
    /\ job = [p \in Workers |-> NULL]
    /\ run_id = [p \in Workers |-> 0]
    /\ idx = [p \in Workers |-> 0]
    /\ entries_with_placements = [p \in Workers |-> <<>>]
    /\ updates = [p \in Workers |-> <<>>]
    /\ tx_entries = [p \in Workers |-> <<>>]
    /\ tx_results = [p \in Workers |-> {}]
    /\ outcome = [p \in Workers |-> "none"]
    /\ runs = 0
    /\ error_count = <<>>

InitMM ==
    /\ InitMatchmakerTables /\ InitRatingsIdle /\ InitMatchmakerIdle
    /\ InitQuotaOfProgram /\ InitSelectIdle /\ InitClientIdle /\ InitTurnsIdle /\ InitCallIdle
    /\ InitStressIdle

NextMM ==
    \/ MMRun
    \/ MMFetchLeaderboards
    \/ MMFetchLeaderboardsError
    \/ MMFetchEntries
    \/ MMSelectAndBegin
    \/ MMCreateGame
    \/ MMAddEntry
    \/ MMSetEnqueuedAt
    \/ MMCreateLeaderboardGame
    \/ MMCommit
    \/ MMEnqueue
    \/ MMError

SpecMM == InitMM /\ [][NextMM]_vars

\* ---------------------------------------------------- quota arithmetic

\* The intervals and daily targets the quota is computed for.
IntervalSamples == {1, 7, 60, 900, 1000, 3600, 7000, 30000, 43200, 50000, 86400,
                    86401, 100000, 172800}

GamesPerDaySamples == {0, 1, 2, 50, 96, 97, 100, 1000}

InitQuota ==
    /\ InitGames /\ InitRatings /\ InitMatchmakerIdle /\ InitSelectIdle
    /\ InitClientIdle /\ InitTurnsIdle /\ InitCallIdle
    /\ InitStressIdle
    /\ q_games_per_day \in GamesPerDaySamples
    /\ q_interval \in IntervalSamples
    /\ q_result = [pending |-> TRUE]

\* Lines 58-59 of leaderboard_matchmaker.rs on the drawn constants.
ComputeQuota ==
    /\ q_result = [pending |-> TRUE]
    /\ q_result' = games_per_run(q_games_per_day, q_interval)
    /\ UNCHANGED <<ratingVars, gameVars, mmVars, stressVars, callVars, turnVars, selectVars, clientVars,
                   q_games_per_day, q_interval>>

NextQuota == ComputeQuota

SpecQuota == InitQuota /\ [][NextQuota]_vars

\* ------------------------------------------------- select_match on its own

\* The display scores of the entries select_match is called with: ties, and
\* differences the jitter can outweigh.
ScoreSamples == {10, 13}

\* The lists of entries select_match is called with: entry i has id i and a
\* score of ScoreSamples; its snake is snake i, or, for one entry dup >= 2,
\* snake 1 again (get_or_create_entry inserts a second entry for a snake that
\* has one).  The last entry may instead have a score of 18, which is 5 and
\* 8 from the samples: farther than any jitter reaches.  The lists are in any
\* order of score, as in the tests.
EntryLists ==
    UNION {
        {[i \in 1..n |->
             [leaderboard_entry_id |-> i,
              battlesnake_id |-> IF i = dup THEN 1 ELSE i,
              display_score |-> score[i]]] :
           score \in {f \in [1..n -> ScoreSamples \cup {18}] :
                         \A i \in 1..(n - 1) : f[i] \in ScoreSamples},
           dup \in {0} \cup 2..n} :
        n \in 0..MaxEntries}

InitSelect ==
    /\ InitGames /\ InitRatings /\ InitMatchmakerIdle /\ InitQuotaOfProgram
    /\ InitClientIdle /\ InitTurnsIdle /\ InitCallIdle
    /\ InitStressIdle
    /\ s_entries \in EntryLists
    /\ s_match_size \in 1..MATCH_SIZE
    /\ s_result = [pending |-> TRUE]

\* One call of select_match, with any outcome of its rng.
SelectMatch ==
    /\ s_result = [pending |-> TRUE]
    /\ \/ /\ Len(s_entries) < s_match_size
          /\ s_result' = [selected |-> select_match(1, <<>>, s_entries, s_match_size)]
       \/ /\ Len(s_entries) >= s_match_size
          /\ \E seed_idx \in 1..Len(s_entries) :
             \E jitter \in [1..Len(s_entries) -> Jitter] :
                s_result' =
                    [selected |-> select_match(seed_idx, jitter, s_entries, s_match_size),
                     seed_score |->
                        SortBy([a \in Range(s_entries) |-> -a.display_score],
                               s_entries)[seed_idx].display_score]
    /\ UNCHANGED <<ratingVars, gameVars, mmVars, stressVars, callVars, turnVars, quotaVars, clientVars,
                   s_entries, s_match_size>>

NextSelect == SelectMatch

SpecSelect == InitSelect /\ [][NextSelect]_vars

\* ----------------------------------------------------------- snake client

\* Option<T>: None, Some(x).
None == <<>>

Some(x) == <<x>>

\* Option::unwrap_or.
unwrap_or(opt, default) == IF opt = None THEN default ELSE opt[1]

\* A string of letters: a sequence of characters, each a letter (c) in upper
\* or lower case (up); ups are the positions in upper case.  A character
\* without case, like a space, is written as its own lower case.
Cased(letters, ups) ==
    [i \in 1..Len(letters) |-> [c |-> letters[i], up |-> i \in ups]]

\* The strings a snake answers in the "move" field: up, Down, LEFT, right,
\* north.
DirectionStrings ==
    {Cased(<<"u", "p">>, {}), Cased(<<"d", "o", "w", "n">>, {1}),
     Cased(<<"l", "e", "f", "t">>, 1..4), Cased(<<"r", "i", "g", "h", "t">>, {}),
     Cased(<<"n", "o", "r", "t", "h">>, {})}

\* str::to_lowercase: every character in its lower case.
to_lowercase(str) == [i \in 1..Len(str) |-> [str[i] EXCEPT !.up = FALSE]]

\* Move's Display: the lowercase name of the move.
to_string(move) ==
    CASE move = "Move::Up" -> Cased(<<"u", "p">>, {})
      [] move = "Move::Down" -> Cased(<<"d", "o", "w", "n">>, {})
      [] move = "Move::Left" -> Cased(<<"l", "e", "f", "t">>, {})
      [] move = "Move::Right" -> Cased(<<"r", "i", "g", "h", "t">>, {})

\* parse_direction that trims the string first.
parse_direction_trimmed(str) ==
    LET lower == to_lowercase(SelectSeq(str, LAMBDA ch : ch.c # " "))
    IN CASE lower = Cased(<<"u", "p">>, {}) -> Some("Move::Up")
         [] lower = Cased(<<"d", "o", "w", "n">>, {}) -> Some("Move::Down")
         [] lower = Cased(<<"l", "e", "f", "t">>, {}) -> Some("Move::Left")
         [] lower = Cased(<<"r", "i", "g", "h", "t">>, {}) -> Some("Move::Right")
         [] OTHER -> None

\* parse_direction.
parse_direction(str) ==
    LET lower == to_lowercase(str)
    IN CASE lower = Cased(<<"u", "p">>, {}) -> Some("Move::Up")
         [] lower = Cased(<<"d", "o", "w", "n">>, {}) -> Some("Move::Down")
         [] lower = Cased(<<"l", "e", "f", "t">>, {}) -> Some("Move::Left")
         [] lower = Cased(<<"r", "i", "g", "h", "t">>, {}) -> Some("Move::Right")
         [] OTHER -> None

\* What response.json::<MoveResponse>() yields: the parsed MoveResponse, or
\* an error.  reqwest reads the body inside json(), so the error is either a
\* body that is not a MoveResponse ("decode") or a transport failure or
\* client-side timeout while the body is read ("body").
JsonResults ==
    [ok : {TRUE}, direction : DirectionStrings, shout : {None, Some("hi")}]
    \cup [ok : {FALSE}, error : {"decode", "body"}]

\* What tokio::time::timeout(timeout, send()) yields: Err(Elapsed),
\* Ok(Err(e)) or Ok(Ok(response)), the latter with what json() will yield.
SendResults ==
    {[kind |-> "Elapsed"], [kind |-> "Err"]}
    \cup [kind : {"Response"}, json : JsonResults]

\* The values of start.elapsed().as_millis().
ElapsedSamples == {3, 480}

\* request_move that does not flag a timeout or a transport error.
request_move_timeout_unflagged(snake, result, elapsed, last_direction) ==
    IF result.kind = "Response" /\ result.json.ok
    THEN [snake_id |-> snake.id,
          direction |-> unwrap_or(parse_direction(result.json.direction),
                                  unwrap_or(last_direction, "Move::Up")),
          latency_ms |-> Some(elapsed),
          timed_out |-> FALSE,
          shout |-> result.json.shout]
    ELSE [snake_id |-> snake.id,
          direction |-> unwrap_or(last_direction, "Move::Up"),
          latency_ms |-> IF result.kind = "Response" THEN Some(elapsed) ELSE None,
          timed_out |-> FALSE,
          shout |-> None]

\* request_move that reports an unparsable body like a timeout.
request_move_parse_error_as_timeout(snake, result, elapsed, last_direction) ==
    IF result.kind = "Response" /\ result.json.ok
    THEN [snake_id |-> snake.id,
          direction |-> unwrap_or(parse_direction(result.json.direction),
                                  unwrap_or(last_direction, "Move::Up")),
          latency_ms |-> Some(elapsed),
          timed_out |-> FALSE,
          shout |-> result.json.shout]
    ELSE [snake_id |-> snake.id,
          direction |-> unwrap_or(last_direction, "Move::Up"),
          latency_ms |-> None,
          timed_out |-> TRUE,
          shout |-> None]

\* request_move that handles a move it cannot read like a body it cannot
\* parse: the shout is dropped.
request_move_unknown_move_as_parse_error(snake, result, elapsed, last_direction) ==
    IF result.kind = "Response"
    THEN IF result.json.ok /\ parse_direction(result.json.direction) # None
         THEN [snake_id |-> snake.id,
               direction |-> unwrap_or(parse_direction(result.json.direction),
                                       unwrap_or(last_direction, "Move::Up")),
               latency_ms |-> Some(elapsed),
               timed_out |-> FALSE,
               shout |-> result.json.shout]
         ELSE [snake_id |-> snake.id,
               direction |-> unwrap_or(last_direction, "Move::Up"),
               latency_ms |-> Some(elapsed),
               timed_out |-> FALSE,
               shout |-> None]
    ELSE [snake_id |-> snake.id,
          direction |-> unwrap_or(last_direction, "Move::Up"),
          latency_ms |-> None,
          timed_out |-> TRUE,
          shout |-> None]

\* request_move for snake, given what the request yields and the measured
\* elapsed time.
request_move(snake, result, elapsed, last_direction) ==
    IF result.kind = "Response"
    THEN IF result.json.ok
         THEN [snake_id |-> snake.id,
               direction |-> unwrap_or(parse_direction(result.json.direction),
                                       unwrap_or(last_direction, "Move::Up")),
               latency_ms |-> Some(elapsed),
               timed_out |-> FALSE,
               shout |-> result.json.shout]
         ELSE [snake_id |-> snake.id,
               direction |-> unwrap_or(last_direction, "Move::Up"),
               latency_ms |-> Some(elapsed),
               timed_out |-> FALSE,
               shout |-> None]
    ELSE [snake_id |-> snake.id,
          direction |-> unwrap_or(last_direction, "Move::Up"),
          latency_ms |-> None,
          timed_out |-> TRUE,
          shout |-> None]

\* HashMap::get(..).copied() on last_moves, a sequence of <<id, move>>.
MapGet(map, key) ==
    IF \E i \in 1..Len(map) : map[i][1] = key
    THEN Some(map[CHOOSE i \in 1..Len(map) : map[i][1] = key][2])
    ELSE None

\* Iterator::filter on a sequence, by the indices that pass.
RECURSIVE FilterSeq(_, _)
FilterSeq(seq, keep) ==
    IF seq = <<>> THEN <<>>
    ELSE LET rest == FilterSeq(SubSeq(seq, 1, Len(seq) - 1), keep)
         IN IF Len(seq) \in keep THEN Append(rest, seq[Len(seq)]) ELSE rest

\* The snakes request_moves_parallel makes a future for: health > 0 and an
\* entry in snake_urls.
Requested(snakes, snake_urls) ==
    FilterSeq(snakes,
              {i \in 1..Len(snakes) :
                  /\ snakes[i].health > 0
                  /\ \E j \in 1..Len(snake_urls) : snake_urls[j][1] = snakes[i].id})

\* request_moves_parallel, given for the i-th future what its request
\* yields (results[i]) and the elapsed time measured (elapsed[i]).
request_moves_parallel(snakes, snake_urls, last_moves, results, elapsed) ==
    LET futures == Requested(snakes, snake_urls)
    IN [i \in 1..Len(futures) |->
          request_move(futures[i], results[i], elapsed[i],
                       MapGet(last_moves, futures[i].id))]

\* The boards: snakes 1..n, each with health 0 or 1.
Boards ==
    UNION {{[i \in 1..n |-> [id |-> i, health |-> health[i]]] :
              health \in [1..n -> {0, 1}]} : n \in 1..MaxSnakes}

\* The sequences of <<id, x>> for the ids of S in ascending order, x of X.
RECURSIVE PairLists(_, _)
PairLists(S, X) ==
    IF S = {} THEN {<<>>}
    ELSE LET m == CHOOSE a \in S : \A b \in S : a >= b
         IN {Append(rest, <<m, x>>) : rest \in PairLists(S \ {m}, X), x \in X}

InitClient ==
    /\ InitGames /\ InitRatings /\ InitMatchmakerIdle /\ InitQuotaOfProgram
    /\ InitSelectIdle /\ InitTurnsIdle /\ InitCallIdle
    /\ InitStressIdle
    /\ c_snakes \in Boards
    /\ \E with_url \in SUBSET (1..Len(c_snakes)) :
          c_snake_urls \in PairLists(with_url, {"http://snake"})
    /\ \E with_last \in SUBSET (1..Len(c_snakes)) :
          c_last_moves \in PairLists(with_last, {"Move::Left"})
    /\ c_results = [pending |-> TRUE]

\* One call of request_moves_parallel, with any outcome of every request.
RequestMovesParallel ==
    /\ c_results = [pending |-> TRUE]
    /\ \E results \in [1..Len(Requested(c_snakes, c_snake_urls)) -> SendResults] :
       \E elapsed \in [1..Len(Requested(c_snakes, c_snake_urls)) -> ElapsedSamples] :
          c_results' = [returned |-> request_moves_parallel(c_snakes, c_snake_urls,
                                                          c_last_moves, results, elapsed),
                        results |-> results,
                        elapsed |-> elapsed]
    /\ UNCHANGED <<ratingVars, gameVars, mmVars, stressVars, callVars, turnVars, quotaVars, selectVars,
                   c_snakes, c_snake_urls, c_last_moves>>

NextClient == RequestMovesParallel

SpecClient == InitClient /\ [][NextClient]_vars

\* --------------------------------------- snake client: requests it builds

\* build_request_for_snake that leaves the game as it is.
build_request_for_snake_keeps_you(game, snake) == game

\* build_request_for_snake.
build_request_for_snake(game, snake) ==
    [you |-> snake, board |-> game.board, turn |-> game.turn, game |-> game.game]

\* The longest base path, in tokens.
MaxPathLen == 3

\* A URL string is a sequence of tokens: a scheme, "://", a host, ":" and a
\* port, the path as "/" and segment tokens, "?" and the query.  These are
\* the strings Url::parse accepts with a path of at most MaxPathLen tokens,
\* and two it rejects (no scheme).
UrlStrings ==
    LET ports == {<<>>, <<":", "80">>, <<":", "8080">>}
        queries == {<<>>, <<"?", "token=abc">>}
        paths == {<<>>} \cup
                 UNION {{<<"/">> \o rest : rest \in [1..(n - 1) -> {"/", "api"}]} :
                          n \in 1..MaxPathLen}
    IN {<<scheme, "://", "example.com">> \o port \o path \o query :
          scheme \in {"http", "https"}, port \in ports, path \in paths,
          query \in queries}
       \cup {<<"example.com">>, <<"example.com", "/", "api", "/", "/">>}

\* Url::parse: the parts of a URL string, the default port of the scheme
\* left out and an empty path read as "/".
Url_parse(str) ==
    IF Len(str) >= 3 /\ str[1] \in {"http", "https"} /\ str[2] = "://"
    THEN LET after_host == SubSeq(str, 4, Len(str))
             has_port == Len(after_host) >= 2 /\ after_host[1] = ":"
             after_port == IF has_port THEN SubSeq(after_host, 3, Len(after_host))
                           ELSE after_host
             marks == {i \in 1..Len(after_port) : after_port[i] = "?"}
             q == IF marks = {} THEN Len(after_port) + 1
                  ELSE CHOOSE i \in marks : \A j \in marks : i <= j
             default_port == IF str[1] = "http" THEN "80" ELSE "443"
         IN [ok |-> TRUE,
             scheme |-> str[1],
             host |-> str[3],
             port |-> IF has_port /\ after_host[2] # default_port
                      THEN Some(after_host[2]) ELSE None,
             path |-> IF q = 1 THEN <<"/">> ELSE SubSeq(after_port, 1, q - 1),
             query |-> IF marks = {} THEN None
                       ELSE Some(SubSeq(after_port, q + 1, Len(after_port)))]
    ELSE [ok |-> FALSE]

\* str::trim_end_matches on a sequence of tokens.
RECURSIVE trim_end_matches(_, _)
trim_end_matches(str, token) ==
    IF str # <<>> /\ str[Len(str)] = token
    THEN trim_end_matches(SubSeq(str, 1, Len(str) - 1), token)
    ELSE str

\* build_endpoint_url.  Url::set_path replaces the path, made to begin with
\* "/"; Url's Display writes the parts back in order.
build_endpoint_url(base_url, endpoint) ==
    LET url == Url_parse(base_url)
        set_path(path) ==
            [url EXCEPT !.path = IF path = <<>> \/ path[1] # "/"
                                 THEN <<"/">> \o path ELSE path]
        to_string_of(u) ==
            <<u.scheme, "://", u.host>>
            \o (IF u.port = None THEN <<>> ELSE <<":", u.port[1]>>)
            \o u.path
            \o (IF u.query = None THEN <<>> ELSE <<"?">> \o u.query[1])
    IN IF url.ok
       THEN LET current_path == trim_end_matches(url.path, "/")
                new_path == current_path \o <<"/", endpoint>>
            IN to_string_of(set_path(new_path))
       ELSE trim_end_matches(base_url, "/") \o <<"/", endpoint>>

\* One call of one of the functions, with any of its arguments:
\* build_request_for_snake with a game and a snake of its board,
\* build_endpoint_url with a URL string and an endpoint, parse_direction with
\* a direction in any letter case, alone or with a space before or after it,
\* with the empty string or another word, or with a move's to_string.
InitFn ==
    /\ InitGames /\ InitRatings /\ InitMatchmakerIdle /\ InitQuotaOfProgram
    /\ InitSelectIdle /\ InitClientIdle /\ InitTurnsIdle
    /\ InitStressIdle
    /\ LET words == {<<"u", "p">>, <<"d", "o", "w", "n">>, <<"l", "e", "f", "t">>,
                     <<"r", "i", "g", "h", "t">>, <<"u">>, <<"u", "p", "s">>,
                     <<"n", "o", "r", "t", "h">>, <<>>}
           cased == UNION {{Cased(w, ups) : ups \in SUBSET (1..Len(w))} : w \in words}
           space == Cased(<<" ">>, {})
           strings == cased \cup {space}
                      \cup {space \o to_lowercase(str) : str \in cased}
                      \cup {to_lowercase(str) \o space : str \in cased}
           calls == UNION {{[fn |-> "build_request_for_snake",
                             game |-> [you |-> board[you],
                                       board |-> [snakes |-> board],
                                       turn |-> turn, game |-> [id |-> id]],
                             snake |-> board[snake]] :
                               you \in 1..Len(board), snake \in 1..Len(board),
                               turn \in 0..MaxTurns, id \in {"game-1", "game-2"}} :
                             board \in Boards}
           entry == [id \in 1..(MaxSnakes + 1) |->
                        make_entry(1, 10 + id, 20 + 5 * (id % 2), 9 - id)]
           ewps == UNION {{ewp \in [1..n -> [id : 1..(MaxSnakes + 1),
                                             placement : 1..(MaxSnakes + 1)]] :
                              \A i, j \in 1..n : ewp[i].id = ewp[j].id => i = j} :
                            n \in 0..(MaxSnakes + 1)}
       IN f_call \in calls
                     \cup {[fn |-> "calculate_rating_updates",
                            entries_with_placements |->
                                [i \in DOMAIN ewp |->
                                    [id |-> ewp[i].id, entry |-> entry[ewp[i].id],
                                     placement |-> ewp[i].placement]]] : ewp \in ewps}
                     \cup [fn : {"build_endpoint_url"}, base_url : UrlStrings,
                           endpoint : {"start", "move", "end"}]
                     \cup [fn : {"parse_direction"}, s : strings]
                     \cup [fn : {"to_string"},
                           m : {"Move::Up", "Move::Down", "Move::Left", "Move::Right"}]
    /\ f_ret = [pending |-> TRUE]

BuildRequestForSnake ==
    /\ f_call.fn = "build_request_for_snake"
    /\ f_ret = [pending |-> TRUE]
    /\ f_ret' = [value |-> build_request_for_snake(f_call.game, f_call.snake)]
    /\ UNCHANGED <<ratingVars, gameVars, mmVars, stressVars, quotaVars, selectVars, clientVars,
                   turnVars, f_call>>

BuildEndpointUrl ==
    /\ f_call.fn = "build_endpoint_url"
    /\ f_ret = [pending |-> TRUE]
    /\ f_ret' = [value |-> build_endpoint_url(f_call.base_url, f_call.endpoint)]
    /\ UNCHANGED <<ratingVars, gameVars, mmVars, stressVars, quotaVars, selectVars, clientVars,
                   turnVars, f_call>>

\* parse_direction of a string, or of what to_string gives for a move.
ParseDirection ==
    /\ f_call.fn \in {"parse_direction", "to_string"}
    /\ f_ret = [pending |-> TRUE]
    /\ f_ret' = [value |-> parse_direction(IF f_call.fn = "to_string"
                                           THEN to_string(f_call.m) ELSE f_call.s)]
    /\ UNCHANGED <<ratingVars, gameVars, mmVars, stressVars, quotaVars, selectVars, clientVars,
                   turnVars, f_call>>

\* calculate_rating_updates of entries read from the leaderboard with the
\* placements of a game.
CalculateRatingUpdates ==
    /\ f_call.fn = "calculate_rating_updates"
    /\ f_ret = [pending |-> TRUE]
    /\ f_ret' = [value |-> calculate_rating_updates(f_call.entries_with_placements)]
    /\ UNCHANGED <<ratingVars, gameVars, mmVars, stressVars, quotaVars, selectVars, clientVars,
                   turnVars, f_call>>

NextFn ==
    \/ BuildRequestForSnake
    \/ BuildEndpointUrl
    \/ ParseDirection
    \/ CalculateRatingUpdates

SpecFn == InitFn /\ [][NextFn]_vars

\* ------------------------------------------- snake client, request by request

\* The latencies measured in a match.
TurnElapsedSamples == {e \in ElapsedSamples : e < 100}

\* The bodies the servers of a match answer /move with.
TurnJsonResults ==
    {j \in JsonResults : j.ok => (j.direction = Cased(<<"d", "o", "w", "n">>, {1}) /\ j.shout = None)}

\* The snakes request_start_parallel and request_end_parallel make a future
\* for: every snake of the board with an entry in snake_urls.
RequestedAll(snakes, snake_urls) ==
    FilterSeq(snakes,
              {i \in 1..Len(snakes) :
                  \E j \in 1..Len(snake_urls) : snake_urls[j][1] = snakes[i].id})

\* request_start and request_end for snake, given what the request yields:
\* they return nothing and log one line.
request_start(snake, result) ==
    [snake_id |-> snake.id,
     log |-> CASE result.kind = "Response" -> "Called /start successfully"
               [] result.kind = "Err" -> "Failed to call /start"
               [] OTHER -> "Timeout calling /start"]

request_end(snake, result) ==
    [snake_id |-> snake.id,
     log |-> CASE result.kind = "Response" -> "Called /end successfully"
               [] result.kind = "Err" -> "Failed to call /end"
               [] OTHER -> "Timeout calling /end"]

\* The futures of a fan-out, none of them polled yet: each awaits send()
\* under tokio::time::timeout.
Launch(futures) ==
    [i \in 1..Len(futures) |->
        [snake |-> futures[i], state |-> "send", expired |-> FALSE, result |-> None]]

\* Where a future goes when send() yields a response: request_move reads the
\* body with response.json(), request_start and request_end drop the response.
AfterResponse_reads_body(call) == "body"

AfterResponse(call) == IF call = "moves_parallel" THEN "body" ELSE "done"

\* Future i of the fan-out in flight returns, given what its request yields.
Complete(i, result, elapsed) ==
    LET snake == t_req[i].snake
        returns ==
            CASE t_pc = "moves_parallel" ->
                    request_move(snake, result, elapsed,
                                 MapGet(t_last_moves, snake.id))
              [] t_pc = "start_parallel" -> request_start(snake, result)
              [] OTHER -> request_end(snake, result)
    IN t_req' = [t_req EXCEPT ![i] =
                    [snake |-> snake, state |-> "done", expired |-> FALSE,
                     result |-> Some(returns)]]

InFlight(i) == i \in DOMAIN t_req /\ t_req[i].state # "done"

\* Time passes the deadline of future i's timeout.
Tick(i) ==
    /\ InFlight(i)
    /\ ~t_req[i].expired
    /\ t_req' = [t_req EXCEPT ![i].expired = TRUE]
    /\ UNCHANGED <<ratingVars, gameVars, mmVars, stressVars, callVars, quotaVars, selectVars, clientVars,
                   t_pc, t_turn, t_snakes, t_snake_urls, t_last_moves, t_results,
                   t_server>>

\* tokio::time::timeout yields Err(Elapsed): send() is still pending when the
\* deadline has passed.
TimeoutFires(i) ==
    /\ InFlight(i)
    /\ t_req[i].state = "send"
    /\ t_req[i].expired
    /\ \E elapsed \in TurnElapsedSamples : Complete(i, [kind |-> "Elapsed"], elapsed)
    /\ UNCHANGED <<ratingVars, gameVars, mmVars, stressVars, callVars, quotaVars, selectVars, clientVars,
                   t_pc, t_turn, t_snakes, t_snake_urls, t_last_moves, t_results,
                   t_server>>

\* send() yields Ok(Err(e)): the connection to the server fails.
SendError(i) ==
    /\ InFlight(i)
    /\ t_req[i].state = "send"
    /\ t_server[t_req[i].snake.id] = "any"
    /\ \E elapsed \in TurnElapsedSamples : Complete(i, [kind |-> "Err"], elapsed)
    /\ UNCHANGED <<ratingVars, gameVars, mmVars, stressVars, callVars, quotaVars, selectVars, clientVars,
                   t_pc, t_turn, t_snakes, t_snake_urls, t_last_moves, t_results,
                   t_server>>

\* send() yields Ok(Ok(response)): the server has sent the response headers.
\* The timeout future is polled after send(), so this may also happen once
\* the deadline has passed.
ServerResponds(i) ==
    /\ InFlight(i)
    /\ t_req[i].state = "send"
    /\ t_server[t_req[i].snake.id] # "never"
    /\ IF AfterResponse(t_pc) = "body"
       THEN t_req' = [t_req EXCEPT ![i].state = "body"]
       ELSE \E elapsed \in TurnElapsedSamples :
               Complete(i, [kind |-> "Response"], elapsed)
    /\ UNCHANGED <<ratingVars, gameVars, mmVars, stressVars, callVars, quotaVars, selectVars, clientVars,
                   t_pc, t_turn, t_snakes, t_snake_urls, t_last_moves, t_results,
                   t_server>>

\* response.json() yields: the server has sent the body, or the connection
\* has failed while the body was read.  No timeout covers this await.
ServerBody(i) ==
    /\ InFlight(i)
    /\ t_req[i].state = "body"
    /\ \E json \in TurnJsonResults, elapsed \in TurnElapsedSamples :
          /\ t_server[t_req[i].snake.id] = "answers" => json.ok
          /\ Complete(i, [kind |-> "Response", json |-> json], elapsed)
    /\ UNCHANGED <<ratingVars, gameVars, mmVars, stressVars, callVars, quotaVars, selectVars, clientVars,
                   t_pc, t_turn, t_snakes, t_snake_urls, t_last_moves, t_results,
                   t_server>>

\* join_all returns once every future has returned, with their values in
\* order: the MoveResults, or for /start and /end what each call logged.
JoinAll ==
    /\ t_pc \in {"start_parallel", "moves_parallel", "end_parallel"}
    /\ \A i \in DOMAIN t_req : t_req[i].state = "done"
    /\ t_pc' = CASE t_pc = "start_parallel" -> "loop"
                 [] t_pc = "moves_parallel" -> "simulate"
                 [] OTHER -> "finished"
    /\ t_results' = [i \in DOMAIN t_req |-> t_req[i].result[1]]
    /\ t_req' = <<>>
    /\ UNCHANGED <<ratingVars, gameVars, mmVars, stressVars, callVars, quotaVars, selectVars, clientVars,
                   t_turn, t_snakes, t_snake_urls, t_last_moves, t_server>>

\* last_moves for the next turn: each snake's direction of the turn just
\* played, or what it had before.
RecordLastMoves(last_moves, results, snakes) ==
    LET Moved(id) == \E k \in 1..Len(results) : results[k].snake_id = id
        DirectionOf(id) ==
            IF Moved(id)
            THEN results[CHOOSE k \in 1..Len(results) : results[k].snake_id = id].direction
            ELSE unwrap_or(MapGet(last_moves, id), "Move::Up")
    IN FilterSeq([i \in 1..Len(snakes) |-> <<snakes[i].id, DirectionOf(snakes[i].id)>>],
                 {i \in 1..Len(snakes) :
                     Moved(snakes[i].id) \/ MapGet(last_moves, snakes[i].id) # None})

\* The head of the turn driver's loop: while more than one snake is alive it
\* records the last moves and calls request_moves_parallel, then it calls
\* request_end_parallel.
LoopHead ==
    /\ t_pc = "loop"
    /\ LET moves == IF t_turn = 0 THEN <<>> ELSE t_results IN
       IF /\ Cardinality({i \in 1..Len(t_snakes) : t_snakes[i].health > 0}) > 1
          /\ t_turn < MaxTurns
       THEN /\ t_pc' = "moves_parallel"
            /\ t_last_moves' = RecordLastMoves(t_last_moves, moves, t_snakes)
            /\ t_req' = Launch(Requested(t_snakes, t_snake_urls))
       ELSE /\ t_pc' = "end_parallel"
            /\ t_last_moves' = t_last_moves
            /\ t_req' = Launch(RequestedAll(t_snakes, t_snake_urls))
    /\ t_results' = <<>>
    /\ UNCHANGED <<ratingVars, gameVars, mmVars, stressVars, callVars, quotaVars, selectVars, clientVars,
                   t_turn, t_snakes, t_snake_urls, t_server>>

\* The rules simulator gives the next game state: any of the snakes alive
\* may have died.
Simulate ==
    /\ t_pc = "simulate"
    /\ \E dies \in SUBSET {i \in 1..Len(t_snakes) : t_snakes[i].health > 0} :
          t_snakes' = [i \in 1..Len(t_snakes) |->
                          IF i \in dies THEN [t_snakes[i] EXCEPT !.health = 0]
                          ELSE t_snakes[i]]
    /\ t_turn' = t_turn + 1
    /\ t_pc' = "loop"
    /\ UNCHANGED <<ratingVars, gameVars, mmVars, stressVars, callVars, quotaVars, selectVars, clientVars,
                   t_snake_urls, t_last_moves, t_req, t_results, t_server>>

\* A match of MaxSnakes snakes, all alive and with a URL; the driver has
\* called request_start_parallel.  Either every server may do anything, or
\* snake 1's never answers and the others answer.
InitTurns ==
    /\ InitGames /\ InitRatings /\ InitMatchmakerIdle /\ InitQuotaOfProgram
    /\ InitSelectIdle /\ InitClientIdle /\ InitCallIdle
    /\ InitStressIdle
    /\ t_pc = "start_parallel"
    /\ t_turn = 0
    /\ t_snakes = [i \in 1..MaxSnakes |-> [id |-> i, health |-> 1]]
    /\ t_snake_urls = [i \in 1..MaxSnakes |-> <<i, "http://snake">>]
    /\ t_last_moves = <<>>
    /\ t_req = Launch(RequestedAll(t_snakes, t_snake_urls))
    /\ t_results = <<>>
    /\ t_server \in {[i \in 1..MaxSnakes |-> "any"],
                    [i \in 1..MaxSnakes |-> IF i = 1 THEN "never" ELSE "answers"]}

NextTurns ==
    \/ \E i \in 1..MaxSnakes : Tick(i)
    \/ \E i \in 1..MaxSnakes : TimeoutFires(i)
    \/ \E i \in 1..MaxSnakes : SendError(i)
    \/ \E i \in 1..MaxSnakes : ServerResponds(i)
    \/ \E i \in 1..MaxSnakes : ServerBody(i)
    \/ JoinAll
    \/ LoopHead
    \/ Simulate

\* Time passes, the runtime polls every future that can make progress and
\* the driver runs; of the servers only those that answer are obliged to.
FairTurns ==
    LET Answers(i) ==
            /\ InFlight(i)
            /\ t_server[t_req[i].snake.id] = "answers"
            /\ ServerResponds(i) \/ ServerBody(i)
    IN /\ \A i \in 1..MaxSnakes : WF_vars(Tick(i))
       /\ \A i \in 1..MaxSnakes : WF_vars(TimeoutFires(i))
       /\ \A i \in 1..MaxSnakes : WF_vars(Answers(i))
       /\ WF_vars(JoinAll)
       /\ WF_vars(LoopHead)
       /\ WF_vars(Simulate)

SpecTurns == InitTurns /\ [][NextTurns]_vars /\ FairTurns

\* ---------------------------------------- stress tester: completion polling

\* update_game_statuses_sync without the COALESCE: a finished status always
\* writes first_seen_finished_at.
RECURSIVE update_game_statuses_sync_overwrites(_, _, _)
update_game_statuses_sync_overwrites(conn, statuses, now) ==
    IF statuses = <<>> THEN conn
    ELSE LET status == Head(statuses)
             updated ==
                 [g \in DOMAIN conn |->
                     IF g # status.id THEN conn[g]
                     ELSE IF status.status = "finished"
                     THEN [conn[g] EXCEPT !.status = status.status,
                                          !.server_times = status.times,
                                          !.poll_count = @ + 1,
                                          !.first_seen_finished_at = Some(now)]
                     ELSE [conn[g] EXCEPT !.status = status.status,
                                          !.server_times = status.times,
                                          !.poll_count = @ + 1]]
         IN update_game_statuses_sync_overwrites(updated, Tail(statuses), now)

\* update_game_statuses_sync on the games table conn, with now the value of
\* Utc::now(): one UPDATE ... WHERE game_id = status.id per status, in order.
\* server_times stands for the columns server_updated_at, enqueued_at and
\* server_created_at, which are written as the status gives them.
RECURSIVE update_game_statuses_sync(_, _, _)
update_game_statuses_sync(conn, statuses, now) ==
    IF statuses = <<>> THEN conn
    ELSE LET status == Head(statuses)
             updated ==
                 [g \in DOMAIN conn |->
                     IF g # status.id THEN conn[g]
                     ELSE IF status.status = "finished"
                     THEN [conn[g] EXCEPT !.status = status.status,
                                          !.server_times = status.times,
                                          !.poll_count = @ + 1,
                                          !.first_seen_finished_at =
                                              IF @ = None THEN Some(now) ELSE @]
                     ELSE [conn[g] EXCEPT !.status = status.status,
                                          !.server_times = status.times,
                                          !.poll_count = @ + 1]]
         IN update_game_statuses_sync(updated, Tail(statuses), now)

\* The games of a run as record_game_created_sync inserts them, and the
\* stress tester either calling update_game_statuses_sync directly, as its
\* tests do ("idle"), or entering completion_poller ("loop") with its
\* poll_interval, poll_timeout and a token that is cancelled at some time or
\* never.
InitStress ==
    /\ InitGames /\ InitRatings /\ InitMatchmakerIdle /\ InitQuotaOfProgram
    /\ InitSelectIdle /\ InitClientIdle /\ InitTurnsIdle /\ InitCallIdle
    /\ sdb_games = [g \in {1, 2} |->
                       [status |-> "created", server_times |-> None,
                        first_seen_finished_at |-> None, poll_count |-> 0]]
    /\ cp_pc \in {"idle", "loop"}
    /\ cp_now = 0
    /\ cp_tick = 0
    /\ cp_next_tick = 0
    /\ IF cp_pc = "idle"
       THEN /\ cp_poll_interval = 0
            /\ cp_poll_timeout = 0
            /\ cp_cancel_at = None
            /\ cp_admin_stats_available = FALSE
       ELSE /\ cp_poll_interval \in {1, 2}
            /\ cp_poll_timeout \in {0, 3}
            /\ cp_cancel_at \in {None, Some(2)}
            /\ cp_admin_stats_available \in BOOLEAN
    /\ cp_log = {}

\* A direct call of update_game_statuses_sync with any list of up to two
\* PollGameStatus values: a game of the run or another one, a status and the
\* server's timestamps.
UpdateGameStatuses ==
    /\ cp_pc = "idle"
    /\ cp_now < MaxUpdates
    /\ cp_now' = cp_now + 1
    /\ \E n \in 0..2 :
       \E statuses \in [1..n -> [id : {1, 2, 3}, status : {"running", "finished"},
                                 times : {Some(1)}]] :
          /\ sdb_games' = update_game_statuses_sync(sdb_games, statuses, cp_now')
          /\ f_call' = [fn |-> "update_game_statuses_sync", statuses |-> statuses,
                        now |-> cp_now']
    /\ UNCHANGED <<ratingVars, gameVars, mmVars, quotaVars, selectVars, clientVars,
                   turnVars, f_ret, cp_pc, cp_tick, cp_next_tick, cp_poll_interval,
                   cp_poll_timeout, cp_cancel_at, cp_admin_stats_available, cp_log>>

\* completion_poller that takes a failed read of the unfinished games for an
\* empty list.
completion_poller_read_error_as_empty ==
    /\ cp_pc = "loop"
    /\ LET due == IF cp_now > cp_next_tick THEN cp_now ELSE cp_next_tick
           cancelled == IF cp_cancel_at = None THEN None
                        ELSE IF cp_cancel_at[1] > cp_now THEN cp_cancel_at
                        ELSE Some(cp_now)
           unfinished == {g \in DOMAIN sdb_games : sdb_games[g].status # "finished"}
           NoCall == UNCHANGED <<sdb_games, f_call>>
           Stop(at, break, log) ==
               /\ cp_pc' = break
               /\ cp_now' = at
               /\ cp_log' = log
               /\ NoCall
               /\ UNCHANGED cp_admin_stats_available
           \* fetch_admin_stats and record_admin_stats, when collected
           AdminStats(log) ==
               IF cp_admin_stats_available
               THEN \/ /\ cp_log' = log
                       /\ UNCHANGED cp_admin_stats_available
                    \/ /\ cp_log' = log \cup {"failed to record admin stats"}
                       /\ UNCHANGED cp_admin_stats_available
                    \/ /\ cp_log' = log \cup {"Admin stats unavailable (403)"}
                       /\ cp_admin_stats_available' = FALSE
                    \/ /\ cp_log' = log \cup {"failed to fetch admin stats"}
                       /\ UNCHANGED cp_admin_stats_available
               ELSE /\ cp_log' = log
                    /\ UNCHANGED cp_admin_stats_available
       IN \/ \* cancel.cancelled()
             /\ cancelled # None
             /\ cancelled[1] <= due
             /\ Stop(cancelled[1], "cancelled", {})
             /\ UNCHANGED <<cp_tick, cp_next_tick>>
          \/ \* interval.tick()
             /\ cancelled # None => due <= cancelled[1]
             /\ cp_tick' = due
             /\ cp_next_tick' = cp_next_tick + cp_poll_interval
             /\ IF due > cp_poll_timeout
                THEN Stop(due, "timeout", {"Poll timeout reached"})
                ELSE \/ \* get_unfinished_game_ids fails: continue
                        /\ Stop(due, "finished", {"All games finished"})
                     \/ /\ unfinished = {}
                        /\ Stop(due, "finished", {"All games finished"})
                     \/ /\ unfinished # {}
                        /\ cp_pc' = "loop"
                        /\ \E spent \in {0, 3} :
                              /\ cp_now' = due + spent
                              /\ \/ /\ NoCall
                                    /\ \E warn \in {"poll request failed",
                                                     "poll request returned error status",
                                                     "failed to parse poll response"} :
                                          AdminStats({warn})
                                 \/ \E answered \in SUBSET unfinished :
                                    \E reported \in [answered -> {"running", "finished"}] :
                                    LET ids == SetToSeq(answered)
                                        statuses ==
                                            [i \in DOMAIN ids |->
                                                [id |-> ids[i], status |-> reported[ids[i]],
                                                 times |-> Some(1)]]
                                    IN
                                       \/ /\ sdb_games' = update_game_statuses_sync(
                                                               sdb_games, statuses, cp_now')
                                          /\ f_call' = [fn |-> "update_game_statuses_sync",
                                                        statuses |-> statuses,
                                                        now |-> cp_now']
                                          /\ AdminStats({})
                                       \/ \* an UPDATE fails: the ones before it stay
                                          \E k \in 0..(Len(statuses) - 1) :
                                             /\ sdb_games' = update_game_statuses_sync(
                                                     sdb_games, SubSeq(statuses, 1, k),
                                                     cp_now')
                                             /\ f_call' = [fn |-> "update_game_statuses_sync",
                                                           statuses |-> SubSeq(statuses, 1, k),
                                                           now |-> cp_now']
                                             /\ AdminStats({"failed to update game statuses"})
    /\ UNCHANGED <<ratingVars, gameVars, mmVars, quotaVars, selectVars, clientVars,
                   turnVars, f_ret, cp_poll_interval, cp_poll_timeout, cp_cancel_at>>

\* One iteration of the loop of completion_poller: select! on the token and
\* the interval, and the whole branch taken.  The interval's first tick is
\* immediate and a tick that is overdue fires at once; the branch that is
\* ready first is taken, either one when both are ready.  All unfinished
\* games fit one chunk of 500.  Every request ends: the client has a timeout
\* of 30 seconds.
completion_poller ==
    /\ cp_pc = "loop"
    /\ LET due == IF cp_now > cp_next_tick THEN cp_now ELSE cp_next_tick
           cancelled == IF cp_cancel_at = None THEN None
                        ELSE IF cp_cancel_at[1] > cp_now THEN cp_cancel_at
                        ELSE Some(cp_now)
           unfinished == {g \in DOMAIN sdb_games : sdb_games[g].status # "finished"}
           NoCall == UNCHANGED <<sdb_games, f_call>>
           Stop(at, break, log) ==
               /\ cp_pc' = break
               /\ cp_now' = at
               /\ cp_log' = log
               /\ NoCall
               /\ UNCHANGED cp_admin_stats_available
           \* fetch_admin_stats and record_admin_stats, when collected
           AdminStats(log) ==
               IF cp_admin_stats_available
               THEN \/ /\ cp_log' = log
                       /\ UNCHANGED cp_admin_stats_available
                    \/ /\ cp_log' = log \cup {"failed to record admin stats"}
                       /\ UNCHANGED cp_admin_stats_available
                    \/ /\ cp_log' = log \cup {"Admin stats unavailable (403)"}
                       /\ cp_admin_stats_available' = FALSE
                    \/ /\ cp_log' = log \cup {"failed to fetch admin stats"}
                       /\ UNCHANGED cp_admin_stats_available
               ELSE /\ cp_log' = log
                    /\ UNCHANGED cp_admin_stats_available
       IN \/ \* cancel.cancelled()
             /\ cancelled # None
             /\ cancelled[1] <= due
             /\ Stop(cancelled[1], "cancelled", {})
             /\ UNCHANGED <<cp_tick, cp_next_tick>>
          \/ \* interval.tick()
             /\ cancelled # None => due <= cancelled[1]
             /\ cp_tick' = due
             /\ cp_next_tick' = cp_next_tick + cp_poll_interval
             /\ IF due > cp_poll_timeout
                THEN Stop(due, "timeout", {"Poll timeout reached"})
                ELSE \/ \* get_unfinished_game_ids fails: continue
                        /\ Stop(due, "loop", {"failed to get unfinished game IDs"})
                     \/ /\ unfinished = {}
                        /\ Stop(due, "finished", {"All games finished"})
                     \/ /\ unfinished # {}
                        /\ cp_pc' = "loop"
                        /\ \E spent \in {0, 3} :
                              /\ cp_now' = due + spent
                              /\ \/ /\ NoCall
                                    /\ \E warn \in {"poll request failed",
                                                     "poll request returned error status",
                                                     "failed to parse poll response"} :
                                          AdminStats({warn})
                                 \/ \E answered \in SUBSET unfinished :
                                    \E reported \in [answered -> {"running", "finished"}] :
                                    LET ids == SetToSeq(answered)
                                        statuses ==
                                            [i \in DOMAIN ids |->
                                                [id |-> ids[i], status |-> reported[ids[i]],
                                                 times |-> Some(1)]]
                                    IN
                                       \/ /\ sdb_games' = update_game_statuses_sync(
                                                               sdb_games, statuses, cp_now')
                                          /\ f_call' = [fn |-> "update_game_statuses_sync",
                                                        statuses |-> statuses,
                                                        now |-> cp_now']
                                          /\ AdminStats({})
                                       \/ \* an UPDATE fails: the ones before it stay
                                          \E k \in 0..(Len(statuses) - 1) :
                                             /\ sdb_games' = update_game_statuses_sync(
                                                     sdb_games, SubSeq(statuses, 1, k),
                                                     cp_now')
                                             /\ f_call' = [fn |-> "update_game_statuses_sync",
                                                           statuses |-> SubSeq(statuses, 1, k),
                                                           now |-> cp_now']
                                             /\ AdminStats({"failed to update game statuses"})
    /\ UNCHANGED <<ratingVars, gameVars, mmVars, quotaVars, selectVars, clientVars,
                   turnVars, f_ret, cp_poll_interval, cp_poll_timeout, cp_cancel_at>>

NextStress == UpdateGameStatuses \/ completion_poller

\* The runtime keeps polling the task of completion_poller, and its timers
\* and requests come to an end.
SpecStress == InitStress /\ [][NextStress]_vars /\ WF_vars(completion_poller)

\* -------------------------------- leaderboard entries: opt-in and opt-out
\*
\* The handlers of the API (routes/api/leaderboards.rs) and of the web pages
\* (routes/leaderboard.rs).  A handler runs its statements on the pool, one
\* after the other; no other request runs in between here.  f_call is the
\* request and f_ret the response.

\* The users that send requests.
Users == {1, 2}

\* The battlesnakes table: snakes 1 and 2 belong to user 1, snake 3 to user 2;
\* snake 2 is private.
Battlesnakes ==
    [b \in {1, 2, 3} |->
        [user_id |-> IF b = 3 THEN 2 ELSE 1,
         visibility |-> IF b = 2 THEN "Private" ELSE "Public"]]

\* The entries of battlesnake_id on leaderboard_id, paused ones too.
EntriesOfSnake(leaderboard_id, battlesnake_id) ==
    {e \in DOMAIN leaderboard_entries :
        /\ leaderboard_entries[e].leaderboard_id = leaderboard_id
        /\ leaderboard_entries[e].battlesnake_id = battlesnake_id}

\* get_or_create_entry: INSERT INTO leaderboard_entries (leaderboard_id,
\* battlesnake_id) VALUES ($1, $2) RETURNING ...; every other column takes its
\* default.  The new row gets the next id.
get_or_create_entry(leaderboard_id, battlesnake_id) ==
    LET id == Cardinality(DOMAIN leaderboard_entries) + 1
    IN /\ leaderboard_entries' =
            [e \in DOMAIN leaderboard_entries \cup {id} |->
                IF e = id THEN make_entry(leaderboard_id, battlesnake_id, 25, 8)
                ELSE leaderboard_entries[e]]
       /\ row_lock' = [e \in DOMAIN row_lock \cup {id} |->
                          IF e = id THEN 0 ELSE row_lock[e]]

\* What no handler of this section touches.
EntryRoutesLeave ==
    <<gameVars, mmVars, quotaVars, selectVars, clientVars, turnVars, stressVars,
      leaderboard_game_results, pc, job, run_id, idx, entries_with_placements,
      updates, tx_entries, tx_results, outcome, runs, error_count>>

\* create_entry without the check of the snake's owner.
create_entry_any_owner ==
    /\ Cardinality(DOMAIN leaderboard_entries) < MaxEntries
    /\ \E user_id \in Users, leaderboard_id \in 1..3, battlesnake_id \in 1..4,
          err \in 0..3 :
        LET Reject(status) ==
                /\ f_ret' = [status |-> status]
                /\ UNCHANGED <<leaderboard_entries, row_lock>>
        IN /\ f_call' = [fn |-> "create_entry", user_id |-> user_id,
                         leaderboard_id |-> leaderboard_id,
                         battlesnake_id |-> battlesnake_id]
           /\ IF err = 1 THEN Reject("INTERNAL_SERVER_ERROR")
              ELSE IF leaderboard_id \notin DOMAIN leaderboards THEN Reject("NOT_FOUND")
              ELSE IF leaderboards[leaderboard_id].disabled THEN Reject("BAD_REQUEST")
              ELSE IF err = 2 THEN Reject("INTERNAL_SERVER_ERROR")
              ELSE IF battlesnake_id \notin DOMAIN Battlesnakes THEN Reject("NOT_FOUND")
              ELSE IF Battlesnakes[battlesnake_id].visibility # "Public"
                   THEN Reject("BAD_REQUEST")
              ELSE IF err = 3 THEN Reject("INTERNAL_SERVER_ERROR")
              ELSE /\ get_or_create_entry(leaderboard_id, battlesnake_id)
                   /\ f_ret' = [status |-> "CREATED",
                                leaderboard_entry_id |->
                                    Cardinality(DOMAIN leaderboard_entries) + 1]
    /\ UNCHANGED EntryRoutesLeave

\* POST /api/leaderboards/:id/entries.  err names the statement that fails
\* with a database error: 1 the leaderboard, 2 the snake, 3 the insert, 0 none.
create_entry ==
    /\ Cardinality(DOMAIN leaderboard_entries) < MaxEntries
    /\ \E user_id \in Users, leaderboard_id \in 1..3, battlesnake_id \in 1..4,
          err \in 0..3 :
        LET Reject(status) ==
                /\ f_ret' = [status |-> status]
                /\ UNCHANGED <<leaderboard_entries, row_lock>>
        IN /\ f_call' = [fn |-> "create_entry", user_id |-> user_id,
                         leaderboard_id |-> leaderboard_id,
                         battlesnake_id |-> battlesnake_id]
           /\ IF err = 1 THEN Reject("INTERNAL_SERVER_ERROR")
              ELSE IF leaderboard_id \notin DOMAIN leaderboards THEN Reject("NOT_FOUND")
              ELSE IF leaderboards[leaderboard_id].disabled THEN Reject("BAD_REQUEST")
              ELSE IF err = 2 THEN Reject("INTERNAL_SERVER_ERROR")
              ELSE IF battlesnake_id \notin DOMAIN Battlesnakes THEN Reject("NOT_FOUND")
              ELSE IF Battlesnakes[battlesnake_id].user_id # user_id
                   THEN Reject("FORBIDDEN")
              ELSE IF Battlesnakes[battlesnake_id].visibility # "Public"
                   THEN Reject("BAD_REQUEST")
              ELSE IF err = 3 THEN Reject("INTERNAL_SERVER_ERROR")
              ELSE /\ get_or_create_entry(leaderboard_id, battlesnake_id)
                   /\ f_ret' = [status |-> "CREATED",
                                leaderboard_entry_id |->
                                    Cardinality(DOMAIN leaderboard_entries) + 1]
    /\ UNCHANGED EntryRoutesLeave

\* POST /leaderboards/:id/join: the same checks; the answer is the redirect
\* (Ok) or a ServerError (Err).
join_leaderboard ==
    /\ Cardinality(DOMAIN leaderboard_entries) < MaxEntries
    /\ \E user_id \in Users, leaderboard_id \in 1..3, battlesnake_id \in 1..4,
          err \in 0..3 :
        LET Reject ==
                /\ f_ret' = [status |-> "Err"]
                /\ UNCHANGED <<leaderboard_entries, row_lock>>
        IN /\ f_call' = [fn |-> "join_leaderboard", user_id |-> user_id,
                         leaderboard_id |-> leaderboard_id,
                         battlesnake_id |-> battlesnake_id]
           /\ IF err = 1 THEN Reject
              ELSE IF leaderboard_id \notin DOMAIN leaderboards THEN Reject
              ELSE IF leaderboards[leaderboard_id].disabled THEN Reject
              ELSE IF err = 2 THEN Reject
              ELSE IF battlesnake_id \notin DOMAIN Battlesnakes THEN Reject
              ELSE IF Battlesnakes[battlesnake_id].user_id # user_id THEN Reject
              ELSE IF Battlesnakes[battlesnake_id].visibility # "Public" THEN Reject
              ELSE IF err = 3 THEN Reject
              ELSE /\ get_or_create_entry(leaderboard_id, battlesnake_id)
                   /\ f_ret' = [status |-> "Ok"]
    /\ UNCHANGED EntryRoutesLeave

\* DELETE /api/leaderboards/:id/entries/:battlesnake_id.  get_entry is
\* SELECT ... WHERE leaderboard_id = $1 AND battlesnake_id = $2 read with
\* fetch_optional: of several rows it yields the one the database returns
\* first, and the query has no ORDER BY.  set_disabled is UPDATE ... SET
\* disabled_at = now() WHERE leaderboard_entry_id = $1.  err names the
\* statement that fails: 1 the snake, 2 the entry, 3 the update, 0 none.
delete_entry ==
    /\ \E user_id \in Users, leaderboard_id \in 1..3, battlesnake_id \in 1..4,
          err \in 0..3 :
        LET Reject(status) ==
                /\ f_ret' = [status |-> status]
                /\ UNCHANGED <<leaderboard_entries, row_lock>>
        IN /\ f_call' = [fn |-> "delete_entry", user_id |-> user_id,
                         leaderboard_id |-> leaderboard_id,
                         battlesnake_id |-> battlesnake_id]
           /\ IF err = 1 THEN Reject("INTERNAL_SERVER_ERROR")
              ELSE IF battlesnake_id \notin DOMAIN Battlesnakes THEN Reject("NOT_FOUND")
              ELSE IF Battlesnakes[battlesnake_id].user_id # user_id
                   THEN Reject("FORBIDDEN")
              ELSE IF err = 2 THEN Reject("INTERNAL_SERVER_ERROR")
              ELSE IF EntriesOfSnake(leaderboard_id, battlesnake_id) = {}
                   THEN Reject("NOT_FOUND")
              ELSE \E entry \in EntriesOfSnake(leaderboard_id, battlesnake_id) :
                     IF err = 3 THEN Reject("INTERNAL_SERVER_ERROR")
                     ELSE /\ row_lock[entry] = 0
                          /\ leaderboard_entries' =
                                 [leaderboard_entries EXCEPT ![entry].disabled = TRUE]
                          /\ f_ret' = [status |-> "NO_CONTENT",
                                       leaderboard_entry_id |-> entry]
                          /\ UNCHANGED row_lock
    /\ UNCHANGED EntryRoutesLeave

\* Leaderboard 1 is active and leaderboard 2 disabled.  Snake 1 has one entry
\* on leaderboard 1, rated over four games and paused; snake 3 has an active
\* one that has not played.
InitEntries ==
    /\ leaderboards = [l \in {1, 2} |-> [disabled |-> (l = 2)]]
    /\ leaderboard_entries =
          [e \in {1, 2} |->
              IF e = 1
              THEN [make_entry(1, 1, 30, 5) EXCEPT !.games_played = 4,
                                                   !.first_place_finishes = 3,
                                                   !.non_first_finishes = 1,
                                                   !.disabled = TRUE]
              ELSE make_entry(1, 3, 25, 8)]
    /\ games = <<>>
    /\ game_battlesnakes = <<>>
    /\ leaderboard_games = <<>>
    /\ jobs = <<>>
    /\ InitRatingsIdle /\ InitMatchmakerIdle /\ InitQuotaOfProgram
    /\ InitSelectIdle /\ InitClientIdle /\ InitTurnsIdle /\ InitCallIdle
    /\ InitStressIdle

NextEntries == create_entry \/ join_leaderboard \/ delete_entry

SpecEntries == InitEntries /\ [][NextEntries]_vars

\* ------------------------------------------------- claims: rating engine

\* The committed audit rows of entry e.
ResultRows(e) ==
    {r \in leaderboard_game_results : r.leaderboard_entry_id = e}

\* The entries on the join rows of leaderboard game lg.
Participants(lg) ==
    LET rows == game_battlesnakes[leaderboard_games[lg].game_id]
    IN {rows[i].leaderboard_entry_id : i \in 1..Len(rows)}

\* Entry e carries the rating its audit row r records as written.
RatingIsAfter(e, r) ==
    /\ leaderboard_entries[e].mu = r.mu_after
    /\ leaderboard_entries[e].sigma = r.sigma_after

\* C1: when two invocations of update_ratings for the same leaderboard game
\* run concurrently, the second is a no-op under every interleaving: every
\* entry's games_played counts each rated game once (one per audit row), and
\* an entry rated by one game carries the rating of that single update.
C1_ConcurrentSecondIsNoOp ==
    \A e \in DOMAIN leaderboard_entries :
        /\ leaderboard_entries[e].games_played = Cardinality(ResultRows(e))
        /\ \A r \in ResultRows(e) : ResultRows(e) = {r} => RatingIsAfter(e, r)

\* C2: under sequential runs of update_ratings, a run for a leaderboard game
\* whose results are committed never gets past the fast-path check and holds
\* no uncommitted write, so every entry's games_played is one per rated game.
C2_SequentialRetryIdempotent ==
    /\ \A p \in Workers :
          (outcome[p] = "running" /\ CountGameResults(job[p]) > 0) =>
              /\ pc[p] = "fast_path"
              /\ tx_results[p] = {}
              /\ DOMAIN tx_entries[p] = {}
    /\ \A e \in DOMAIN leaderboard_entries :
          leaderboard_entries[e].games_played = Cardinality(ResultRows(e))

\* A second run of the job of game 1 has returned at an idempotency check
\* and the participants of game 1 were rated once.
C2_Witness ==
    /\ pc[1] = "idle" /\ outcome[1] = "Ok" /\ job[1] = 1
    /\ CountGameResults(1) > 0
    /\ \A e \in Participants(1) : leaderboard_entries[e].games_played = 1

\* The state part of C3: a failed invocation leaves no lock and no
\* uncommitted write behind, and once a run of a job has committed, every
\* participant has exactly one audit row of that game and one game counted
\* per audit row.
C3_ExactlyOnceAfterRetry ==
    /\ \A p \in Workers :
          outcome[p] = "Err" =>
              /\ tx_results[p] = {} /\ DOMAIN tx_entries[p] = {}
              /\ \A e \in DOMAIN row_lock : row_lock[e] # p
    /\ \A p \in Workers :
          outcome[p] = "Committed" =>
              \A e \in Participants(job[p]) :
                  /\ Cardinality({r \in ResultRows(e) :
                                     r.leaderboard_game_id = job[p]}) = 1
                  /\ leaderboard_entries[e].games_played = Cardinality(ResultRows(e))

\* The step part of C3: the committed tables change only in the step in
\* which an invocation commits; a step in which an invocation fails changes
\* neither table.
C3_OnlyCommitWrites ==
    /\ (leaderboard_entries' # leaderboard_entries
        \/ leaderboard_game_results' # leaderboard_game_results)
          => \E p \in Workers : outcome[p] = "running" /\ outcome'[p] = "Committed"
    /\ (\E p \in Workers : outcome[p] = "running" /\ outcome'[p] = "Err")
          => /\ leaderboard_entries' = leaderboard_entries
             /\ leaderboard_game_results' = leaderboard_game_results

\* C3: an invocation of update_ratings that fails before its transaction
\* commits leaves no audit row and no entry change, and a later retry of the
\* job applies the whole update exactly once.
C3_FailureRollsBackRetryApplies ==
    [](C3_ExactlyOnceAfterRetry) /\ [][C3_OnlyCommitWrites]_vars

\* The job of game 1 failed at least once and a retry has committed it.
C3_Witness ==
    /\ error_count[1] > 0
    /\ outcome[1] = "Committed" /\ job[1] = 1
    /\ \A e \in Participants(1) : leaderboard_entries[e].games_played = 1

\* C4: when the jobs of two leaderboard games that share an entry run
\* concurrently, no update is lost: games_played counts every audit row, and
\* of two audit rows of one entry one starts from the rating the other wrote
\* and the entry carries the rating of the later one.
C4_SharedEntrySerialized ==
    \A e \in DOMAIN leaderboard_entries :
        /\ leaderboard_entries[e].games_played = Cardinality(ResultRows(e))
        /\ \A r \in ResultRows(e) : ResultRows(e) = {r} => RatingIsAfter(e, r)
        /\ \A r, s \in ResultRows(e) :
              r # s =>
                \/ /\ s.mu_before = r.mu_after /\ s.sigma_before = r.sigma_after
                   /\ RatingIsAfter(e, s)
                \/ /\ r.mu_before = s.mu_after /\ r.sigma_before = s.sigma_after
                   /\ RatingIsAfter(e, r)

\* Both games are committed: the shared entry 2 has two audit rows.
C4_Witness ==
    /\ Cardinality(ResultRows(2)) = 2
    /\ leaderboard_entries[2].games_played = 2

\* The state part of C5.
C5_CountersAddUp ==
    \A e \in DOMAIN leaderboard_entries :
        leaderboard_entries[e].games_played =
            leaderboard_entries[e].first_place_finishes
            + leaderboard_entries[e].non_first_finishes

\* The step part of C5: a step that changes a counter of an entry commits an
\* update of that entry, adds 1 to games_played and 1 to first_place_finishes
\* when the placement is 1, to non_first_finishes otherwise.
C5_UpdateAddsOne ==
    \A e \in DOMAIN leaderboard_entries :
        LET old == leaderboard_entries[e]
            new == leaderboard_entries'[e]
        IN (\/ new.games_played # old.games_played
            \/ new.first_place_finishes # old.first_place_finishes
            \/ new.non_first_finishes # old.non_first_finishes)
           => \E p \in Workers : \E i \in DOMAIN updates[p] :
                 /\ pc[p] = "commit"
                 /\ updates[p][i].leaderboard_entry_id = e
                 /\ new.games_played = old.games_played + 1
                 /\ new.first_place_finishes = old.first_place_finishes
                        + (IF updates[p][i].placement = 1 THEN 1 ELSE 0)
                 /\ new.non_first_finishes = old.non_first_finishes
                        + (IF updates[p][i].placement = 1 THEN 0 ELSE 1)

\* C5: every committed entry has games_played = first_place_finishes +
\* non_first_finishes, and each applied rating update adds 1 to games_played
\* and 1 to exactly one finish counter, first_place_finishes iff placement = 1.
C5_GamesPlayedIsSumOfFinishes ==
    [](C5_CountersAddUp) /\ [][C5_UpdateAddsOne]_vars

\* Entry 2 was rated by both games: first in one, second in the other.
C5_Witness ==
    /\ leaderboard_entries[2].first_place_finishes = 1
    /\ leaderboard_entries[2].non_first_finishes = 1

\* C6: every entry row, committed or written inside a rating transaction,
\* has display_score = mu - 3 * sigma.
C6_DisplayScoreIsMuMinus3Sigma ==
    /\ \A e \in DOMAIN leaderboard_entries :
          leaderboard_entries[e].display_score =
              leaderboard_entries[e].mu - 3 * leaderboard_entries[e].sigma
    /\ \A p \in Workers : \A e \in DOMAIN tx_entries[p] :
          tx_entries[p][e].display_score =
              tx_entries[p][e].mu - 3 * tx_entries[p][e].sigma

\* An entry whose mu and sigma the rating engine has changed twice.
C6_Witness ==
    \E e \in DOMAIN leaderboard_entries :
        /\ leaderboard_entries[e].games_played = 2
        /\ leaderboard_entries[e].sigma < make_entry(1, e, 25, 8).sigma
        /\ leaderboard_entries[e].display_score # make_entry(1, e, 25, 8).display_score

\* C7: the committed audit table holds at most one row per (leaderboard game,
\* entry) pair.
C7_ResultRowsUnique ==
    \A r, s \in leaderboard_game_results : SameKey(r, s) => r = s

\* A second invocation for a rated game has run its first insert, which the
\* conflict turned into nothing.
C7_Witness ==
    \E p \in Workers :
        /\ pc[p] = "update" /\ idx[p] = 1
        /\ tx_results[p] = {}
        /\ CountGameResults(job[p]) > 0

\* --------------------------------------------------- claims: matchmaker

\* The link rows of game g.
LinksOf(g) == {lg \in DOMAIN leaderboard_games : leaderboard_games[lg].game_id = g}

\* The committed matchmaker tables.
MatchTables == <<games, game_battlesnakes, leaderboard_games>>

C8_CommittedMatchComplete ==
    /\ DOMAIN game_battlesnakes = DOMAIN games
    /\ \A g \in DOMAIN games :
          /\ Cardinality(LinksOf(g)) = 1
          /\ games[g].enqueued_at
          /\ Len(game_battlesnakes[g]) = MATCH_SIZE
          /\ \A i \in 1..Len(game_battlesnakes[g]) :
                /\ game_battlesnakes[g][i].leaderboard_entry_id \in DOMAIN leaderboard_entries
                /\ game_battlesnakes[g][i].battlesnake_id = NULL
          /\ \A i, j \in 1..Len(game_battlesnakes[g]) :
                i # j => game_battlesnakes[g][i].leaderboard_entry_id
                          # game_battlesnakes[g][j].leaderboard_entry_id
    /\ \A lg \in DOMAIN leaderboard_games :
          leaderboard_games[lg].game_id \in DOMAIN games

C8_RowsAppearOnlyAtCommit ==
    /\ MatchTables' # MatchTables => mm_pc = "commit" /\ mm_pc' = "enqueue"
    /\ (mm_tx.open /\ mm_pc' # "enqueue" /\ ~mm_tx'.open) => MatchTables' = MatchTables

\* C8: match creation by the matchmaker is atomic.  In every committed state
\* each match has exactly one leaderboard link row, its enqueued_at set and
\* exactly MATCH_SIZE join rows keyed by distinct entry ids (without a
\* battlesnake_id copy), and every link row references a match; the rows
\* appear only at the commit, and a step that fails inside the transaction
\* leaves the tables as they were.
C8_MatchCreationAtomic ==
    [](C8_CommittedMatchComplete) /\ [][C8_RowsAppearOnlyAtCommit]_vars

\* Leaderboard 1 has one committed match, and its second match failed.
C8_Witness ==
    /\ Cardinality(DOMAIN games) = 1
    /\ Cardinality(LinksOf(1)) = 1
    /\ <<1, 1>> \in mm_log
    /\ mm_tx = NoTx

\* ceil(a / b) for b > 0.
CeilDiv(a, b) == (a + b - 1) \div b

\* C9: for every positive interval and every daily target the quota is
\* ceil(GAMES_PER_DAY * MATCHMAKER_INTERVAL_SECS / 86400), at least 1.
C9_QuotaIsCeilOfShare ==
    q_result # [pending |-> TRUE] =>
        q_result = [value |-> IF CeilDiv(q_games_per_day * q_interval, 86400) > 1
                              THEN CeilDiv(q_games_per_day * q_interval, 86400)
                              ELSE 1]

\* The active leaderboards with at least MATCH_SIZE active entries.
EligibleLeaderboards ==
    {l \in DOMAIN leaderboards :
        /\ ~leaderboards[l].disabled
        /\ Len(get_active_entries(l)) >= MATCH_SIZE}

\* The matches of leaderboard l that run c created.
MatchesOfRun(l, c) ==
    {g \in DOMAIN games :
        /\ games[g].created_at = c
        /\ \E lg \in LinksOf(g) : leaderboard_games[lg].leaderboard_id = l}

\* The jobs enqueued for game g.
JobsOf(g) == {i \in 1..Len(jobs) : jobs[i] = g}

\* Run mm_cycle has returned Ok and logged no failure.
RunWithoutFailure ==
    /\ mm_cycle >= 1
    /\ mm_pc = "idle"
    /\ mm_result = "Ok"
    /\ \A l \in DOMAIN leaderboards : <<mm_cycle, l>> \notin mm_log

\* C10: after a run in which no step failed, every active leaderboard with
\* at least MATCH_SIZE active entries has exactly 2 new matches, each with
\* exactly one job; and at any time a job is enqueued only for a committed
\* match with its link row, at most once.
C10_QuotaOfMatchesAndOneJobEach ==
    /\ RunWithoutFailure =>
          \A l \in EligibleLeaderboards :
             /\ Cardinality(MatchesOfRun(l, mm_cycle)) = 2
             /\ \A g \in MatchesOfRun(l, mm_cycle) : Cardinality(JobsOf(g)) = 1
    /\ \A i \in 1..Len(jobs) :
          /\ jobs[i] \in DOMAIN games
          /\ LinksOf(jobs[i]) # {}
          /\ Cardinality(JobsOf(jobs[i])) = 1

\* A run without failure has ended, and two leaderboards were eligible.
C10_Witness ==
    /\ RunWithoutFailure
    /\ Cardinality(EligibleLeaderboards) = 2
    /\ Len(jobs) = 4

\* The entries of leaderboard l whose disabled_at is null.
ActiveEntryIds(l) ==
    {e \in DOMAIN leaderboard_entries :
        /\ leaderboard_entries[e].leaderboard_id = l
        /\ ~leaderboard_entries[e].disabled}

\* The leaderboards with fewer than MATCH_SIZE active entries.
SmallLeaderboards ==
    {l \in DOMAIN leaderboards : Cardinality(ActiveEntryIds(l)) < MATCH_SIZE}

\* The matches linked to leaderboard l.
MatchesOf(l) ==
    {g \in DOMAIN games :
        \E lg \in LinksOf(g) : leaderboard_games[lg].leaderboard_id = l}

\* C11: for a leaderboard with fewer than MATCH_SIZE active entries the
\* matchmaker creates no match and enqueues no job, and while it works on
\* that leaderboard it never gets past the fetch of the entries: it opens no
\* transaction and writes nothing.  A run in which that fetch did not fail
\* ends Ok without an error logged for the leaderboard.
C11_TooFewEntriesNoWrites ==
    \A l \in SmallLeaderboards :
        /\ MatchesOf(l) = {}
        /\ \A i \in 1..Len(jobs) : jobs[i] \notin MatchesOf(l)
        /\ (mm_lb > 0 /\ CurrentLeaderboard = l) =>
              /\ mm_pc = "fetch_entries"
              /\ mm_tx = NoTx
              /\ mm_selected = <<>>

\* A run has ended Ok that worked on leaderboard 3 (three active entries) and
\* logged no error for it, after leaderboards 1 and 2 got their matches.
C11_Witness ==
    /\ mm_pc = "idle"
    /\ mm_result = "Ok"
    /\ mm_cycle = 1
    /\ 3 \in SmallLeaderboards
    /\ <<1, 3>> \notin mm_log
    /\ MatchesOf(3) = {}
    /\ Len(jobs) = 4

\* The entry is one the matchmaker may use.
IsActiveEntry(entry_id) ==
    /\ entry_id \in DOMAIN leaderboard_entries
    /\ ~leaderboard_entries[entry_id].disabled

\* C12: the matchmaker never works on a disabled leaderboard (it is not in
\* the list of the run, so its entries are never fetched and no match is
\* created for it), and no disabled entry is among the entries fetched, the
\* entries selected, the join rows of the open transaction or the join rows
\* of a committed match.
C12_DisabledNeverMatched ==
    /\ \A l \in DOMAIN leaderboards :
          leaderboards[l].disabled =>
             /\ MatchesOf(l) = {}
             /\ \A i \in 1..Len(mm_lbs) : mm_lbs[i] # l
    /\ \A i \in 1..Len(mm_entries) : IsActiveEntry(mm_entries[i].leaderboard_entry_id)
    /\ \A i \in 1..Len(mm_selected) : IsActiveEntry(mm_selected[i].leaderboard_entry_id)
    /\ \A i \in 1..Len(mm_tx.participants) :
          IsActiveEntry(mm_tx.participants[i].leaderboard_entry_id)
    /\ \A g \in DOMAIN games : \A i \in 1..Len(game_battlesnakes[g]) :
          IsActiveEntry(game_battlesnakes[g][i].leaderboard_entry_id)

\* A run has ended Ok: leaderboard 4, disabled with four active entries, has
\* no match, and leaderboard 1, which has a disabled entry, has two.
C12_Witness ==
    /\ mm_pc = "idle"
    /\ mm_result = "Ok"
    /\ leaderboards[4].disabled
    /\ Cardinality(ActiveEntryIds(4)) >= MATCH_SIZE
    /\ MatchesOf(4) = {}
    /\ leaderboard_entries[6].disabled
    /\ Cardinality(MatchesOf(1)) = 2

\* The leaderboards for which run mm_cycle logged a failure.
FailedInRun == {l \in DOMAIN leaderboards : <<mm_cycle, l>> \in mm_log}

\* The active leaderboards with at least MATCH_SIZE active entries, read
\* from the tables.
MatchableLeaderboards ==
    {l \in DOMAIN leaderboards :
        ~leaderboards[l].disabled /\ l \notin SmallLeaderboards}

\* C13: a failure while a leaderboard is worked on does not end the run.
\* When a run has ended, either it returned Err, and then the fetch of the
\* leaderboard list failed (nothing was logged or created in it), or it
\* returned Ok, and then every matchable leaderboard was worked on: it has
\* its 2 matches of the run or a failure of its own in the log, whatever
\* happened to the leaderboards before it.
C13_FailureDoesNotAbortCycle ==
    /\ FailedInRun # {} => mm_result # "Err"
    /\ (mm_pc = "idle" /\ mm_cycle >= 1) =>
          /\ mm_result \in {"Ok", "Err"}
          /\ mm_result = "Err" =>
                \A g \in DOMAIN games : games[g].created_at # mm_cycle
          /\ mm_result = "Ok" =>
                \A l \in MatchableLeaderboards :
                    \/ l \in FailedInRun
                    \/ Cardinality(MatchesOfRun(l, mm_cycle)) = 2

\* A run has ended Ok in which leaderboard 1 failed before its first match
\* and leaderboard 2, after it, got its two matches.
C13_Witness ==
    /\ mm_pc = "idle"
    /\ mm_result = "Ok"
    /\ FailedInRun = {1}
    /\ MatchesOfRun(1, mm_cycle) = {}
    /\ Cardinality(MatchesOfRun(2, mm_cycle)) = 2

\* The enqueue of the committed match fails: the step leaves "enqueue"
\* without a new job.
EnqueueFails == mm_pc = "enqueue" /\ jobs' = jobs

\* What the matchmaker does when it tolerates a failed enqueue.
C14_ToleratedStep ==
    EnqueueFails =>
        /\ MatchTables' = MatchTables
        /\ mm_k + 1 < games_per_run(GAMES_PER_DAY, MATCHMAKER_INTERVAL_SECS).value =>
              /\ mm_lb' = mm_lb
              /\ mm_lbs' = mm_lbs
              /\ mm_pc' = "select"
              /\ mm_k' = mm_k + 1

\* C14: when the enqueue fails after the commit, the committed match, join
\* rows and link row stay, and the matchmaker goes on with the remaining
\* matches of the leaderboard's quota.
C14_EnqueueFailureTolerated == [][C14_ToleratedStep]_vars

\* -------------------------------------------------- claims: select_match

\* select_match has been called on its own and has returned.
Selected == s_result # [pending |-> TRUE]

\* C15: select_match returns exactly match_size entries, each one of the
\* input, when the input has at least match_size entries, and the empty list
\* when it has fewer, whatever the seed and the jitter.
C15_SelectMatchSize ==
    Selected =>
        /\ Len(s_entries) >= s_match_size => Len(s_result.selected) = s_match_size
        /\ Len(s_entries) < s_match_size => s_result.selected = <<>>
        /\ \A i \in 1..Len(s_result.selected) :
              s_result.selected[i] \in Range(s_entries)

\* A call with MaxEntries entries that returned MATCH_SIZE of them.
C15_Witness ==
    /\ Selected
    /\ Len(s_entries) = MaxEntries
    /\ s_match_size = MATCH_SIZE
    /\ Len(s_result.selected) = MATCH_SIZE

\* C16: the entries one call of select_match returns are pairwise distinct:
\* no leaderboard_entry_id appears twice.
C16_SelectedEntriesDistinct ==
    Selected =>
        \A i, j \in 1..Len(s_result.selected) :
            i # j => s_result.selected[i].leaderboard_entry_id
                      # s_result.selected[j].leaderboard_entry_id

\* A call that returned MATCH_SIZE entries of equal score, the seed not first.
C16_Witness ==
    /\ Selected
    /\ Len(s_result.selected) = MATCH_SIZE
    /\ \A i \in 1..MATCH_SIZE : s_result.selected[i].display_score = 10
    /\ s_result.selected[1].leaderboard_entry_id > s_result.selected[2].leaderboard_entry_id

\* C17: no two entries one call of select_match returns have the same
\* battlesnake_id, also when a snake has several entries in the list.
C17_SelectedSnakesUnique ==
    Selected =>
        \A i, j \in 1..Len(s_result.selected) :
            i # j => s_result.selected[i].battlesnake_id
                      # s_result.selected[j].battlesnake_id

\* -------------------------------------------------- claims: snake client

\* request_moves_parallel has been called and has returned.
Returned == c_results # [pending |-> TRUE]

\* The snakes with health > 0 and a URL: the k-th request is made for the
\* k-th of them.
SnakeOfRequest(k) ==
    FilterSeq(c_snakes,
              {i \in 1..Len(c_snakes) :
                  /\ c_snakes[i].health > 0
                  /\ \E j \in 1..Len(c_snake_urls) : c_snake_urls[j][1] = c_snakes[i].id})[k]

\* The direction a snake falls back to: its last move, or up.
FallbackOf(snake_id) ==
    IF \E j \in 1..Len(c_last_moves) : c_last_moves[j][1] = snake_id
    THEN "Move::Left"
    ELSE "Move::Up"

\* The k-th /move request timed out or failed with a transport error, while
\* it was sent or while its response was read.
RequestFailed(k) ==
    \/ c_results.results[k].kind \in {"Elapsed", "Err"}
    \/ /\ c_results.results[k].kind = "Response"
       /\ ~c_results.results[k].json.ok
       /\ c_results.results[k].json.error = "body"

\* C18: when a /move request times out or fails with a network or transport
\* error, the MoveResult has timed_out = true, no latency, no shout, the
\* snake's id and the snake's last move, or up, as direction.
C18_FailureGivesTimedOutFallback ==
    Returned =>
        \A k \in 1..Len(c_results.results) :
            RequestFailed(k) =>
                /\ c_results.returned[k].timed_out
                /\ c_results.returned[k].latency_ms = None
                /\ c_results.returned[k].shout = None
                /\ c_results.returned[k].snake_id = SnakeOfRequest(k).id
                /\ c_results.returned[k].direction = FallbackOf(SnakeOfRequest(k).id)

\* The k-th /move request got a response whose body is not a MoveResponse.
BodyUnparsable(k) ==
    /\ c_results.results[k].kind = "Response"
    /\ ~c_results.results[k].json.ok
    /\ c_results.results[k].json.error = "decode"

\* C19: when the body of the response cannot be parsed as a move response,
\* the MoveResult has the snake's last move, or up, as direction,
\* timed_out = false and the measured latency.
C19_ParseFailureGivesFallbackWithLatency ==
    Returned =>
        \A k \in 1..Len(c_results.results) :
            BodyUnparsable(k) =>
                /\ c_results.returned[k].direction = FallbackOf(SnakeOfRequest(k).id)
                /\ ~c_results.returned[k].timed_out
                /\ c_results.returned[k].latency_ms = Some(c_results.elapsed[k])

\* Two unparsable bodies: one snake falls back to its last move, the other,
\* without one, to up.
C19_Witness ==
    /\ Returned
    /\ Len(c_results.returned) = 2
    /\ BodyUnparsable(1) /\ BodyUnparsable(2)
    /\ c_results.returned[1].direction = "Move::Left"
    /\ c_results.returned[2].direction = "Move::Up"
    /\ c_results.returned[1].latency_ms = Some(480)

\* C20: request_moves_parallel returns exactly one MoveResult for every snake
\* with health > 0 and none for any other snake, each with the snake's id and
\* with a fallback taken from the snake's own entry of last_moves.
C20_OneResultPerAliveSnake ==
    Returned =>
        /\ \A i \in 1..Len(c_snakes) :
              Cardinality({k \in 1..Len(c_results.returned) :
                              c_results.returned[k].snake_id = c_snakes[i].id})
                 = IF c_snakes[i].health > 0 THEN 1 ELSE 0
        /\ \A k \in 1..Len(c_results.returned) :
              c_results.returned[k].timed_out =>
                 c_results.returned[k].direction
                    = FallbackOf(c_results.returned[k].snake_id)


\* --------------------------------------------- claims: requests and turns

\* The move request of future i has passed its deadline and has not returned.
MoveOverdue(i) ==
    /\ t_pc = "moves_parallel"
    /\ InFlight(i)
    /\ t_req[i].expired

\* C21: once the timeout has elapsed for a /move request, request_move
\* returns, whatever the server does, so request_moves_parallel returns.
C21_TimeoutBoundsFanOut ==
    \A i \in 1..MaxSnakes :
        MoveOverdue(i) ~> (t_pc = "moves_parallel" => ~InFlight(i))


\* A /start or /end request of future i has passed its deadline and has not
\* returned.
StartEndOverdue(i) ==
    /\ t_pc \in {"start_parallel", "end_parallel"}
    /\ InFlight(i)
    /\ t_req[i].expired

\* C22: request_start, request_end and their parallel forms return nothing
\* and never block past the timeout: every overdue /start or /end request
\* returns whatever its server does, the fan-out returns, and whatever the
\* calls logged the driver goes on to the loop (after /start) or finishes
\* (after /end).
C22_StartEndNeverBlock ==
    /\ \A i \in 1..MaxSnakes :
          StartEndOverdue(i) ~> (t_pc \in {"start_parallel", "end_parallel"} => ~InFlight(i))
    /\ (t_pc = "start_parallel") ~> (t_pc = "loop")
    /\ (t_pc = "end_parallel") ~> (t_pc = "finished")
    /\ [][/\ (t_pc = "start_parallel" /\ t_pc' # t_pc) =>
                (t_pc' = "loop" /\ Len(t_results') = MaxSnakes)
          /\ (t_pc = "end_parallel" /\ t_pc' # t_pc) =>
                (t_pc' = "finished" /\ Len(t_results') = MaxSnakes)]_vars

\* request_start_parallel has returned after one snake's /start timed out,
\* although another snake's /start was answered.
C22_Witness ==
    /\ t_pc = "loop"
    /\ t_turn = 0
    /\ \E i, j \in 1..Len(t_results) :
          /\ t_results[i].log = "Timeout calling /start"
          /\ t_results[j].log = "Called /start successfully"


\* Snake 1's server never answers and the others answer every request.
OneSnakeAlwaysTimesOut ==
    /\ t_server # <<>>
    /\ t_server[1] = "never"
    /\ \A i \in DOMAIN t_server : i # 1 => t_server[i] = "answers"

\* The turn just played gave the snake with this id exactly one move, a
\* timed-out one in the direction of its previous turn (up on turn 0).
TimedOutTurnOf(id) ==
    /\ Cardinality({k \in 1..Len(t_results) : t_results[k].snake_id = id}) = 1
    /\ \A k \in 1..Len(t_results) :
          t_results[k].snake_id = id =>
             /\ t_results[k].timed_out
             /\ t_results[k].direction = unwrap_or(MapGet(t_last_moves, id), "Move::Up")
             /\ t_results[k].direction = "Move::Up"
             /\ t_turn = 0 <=> MapGet(t_last_moves, id) = None

\* C26: in a match where one snake's /move always times out, every turn gives
\* that snake (while it is alive) a move with timed_out = true whose
\* direction is the one of its previous turn, up from turn 0 on, and the
\* match runs to its end.
C26_TimingOutSnakeDoesNotStopMatch ==
    /\ [](OneSnakeAlwaysTimesOut /\ t_pc = "simulate" /\ t_snakes[1].health > 0
            => TimedOutTurnOf(1))
    /\ OneSnakeAlwaysTimesOut => <>(t_pc = "finished")

\* The second turn of such a match has been played: snake 1 timed out again
\* while snake 2 answered.
C26_Witness ==
    /\ OneSnakeAlwaysTimesOut
    /\ t_pc = "simulate"
    /\ t_turn = 1
    /\ \E k, l \in 1..Len(t_results) :
          /\ t_results[k].snake_id = 1 /\ t_results[k].timed_out
          /\ t_results[l].snake_id = 2 /\ t_results[l].direction = "Move::Down"


\* ------------------------------------------- claims: requests it builds

\* The call of the function with this name has returned.
Called(fn) == f_call.fn = fn /\ f_ret # [pending |-> TRUE]

\* C23: the request body built for a snake is the game state with only `you`
\* replaced by that snake: board, turn and game are those of the game given,
\* and the game given is left as it was.
C23_RequestBodyReplacesOnlyYou ==
    /\ [](Called("build_request_for_snake") =>
            /\ DOMAIN f_ret.value = {"you", "board", "turn", "game"}
            /\ f_ret.value.you = f_call.snake
            /\ f_ret.value.board = f_call.game.board
            /\ f_ret.value.turn = f_call.game.turn
            /\ f_ret.value.game = f_call.game.game)
    /\ [][f_call' = f_call]_vars

\* A request body has been built for a snake other than the game's `you`.
C23_Witness ==
    /\ Called("build_request_for_snake")
    /\ f_call.snake # f_call.game.you
    /\ f_ret.value.you = f_call.snake
    /\ Len(f_call.game.board.snakes) = 2


\* The path has two slashes in a row.
HasDoubleSlash(path) ==
    \E i \in 1..(Len(path) - 1) : path[i] = "/" /\ path[i + 1] = "/"

\* C24: for every base URL that parses and every endpoint, build_endpoint_url
\* gives a URL that parses, with the scheme, host, port and query of the
\* base, whose path ends with "/" and the endpoint and has no "//".
C24_EndpointUrlWellFormed ==
    (Called("build_endpoint_url") /\ Url_parse(f_call.base_url).ok) =>
        LET base == Url_parse(f_call.base_url)
            result == Url_parse(f_ret.value)
        IN /\ result.ok
           /\ result.scheme = base.scheme
           /\ result.host = base.host
           /\ result.port = base.port
           /\ result.query = base.query
           /\ Len(result.path) >= 2
           /\ SubSeq(result.path, Len(result.path) - 1, Len(result.path))
                 = <<"/", f_call.endpoint>>
           /\ ~HasDoubleSlash(result.path)


\* What parse_direction returned is the move whose name, in lower case, the
\* string given is; none if it is no move's name.
ParsedAsNamed(str, parsed) ==
    LET Moves == {"Move::Up", "Move::Down", "Move::Left", "Move::Right"}
        named == {m \in Moves : to_string(m) = to_lowercase(str)}
    IN IF named = {} THEN parsed = None ELSE \E m \in named : parsed = Some(m)

\* C25: parse_direction inverts the move-to-string conversion for each of
\* the four moves, in any letter case, and returns none for every other
\* string: the empty string, other words, a direction with a space before or
\* after it.
C25_ParseDirectionInvertsToString ==
    /\ Called("to_string") => f_ret.value = Some(f_call.m)
    /\ Called("parse_direction") =>
          /\ ParsedAsNamed(f_call.s, f_ret.value)
          /\ (f_call.s = <<>> \/ \E i \in 1..Len(f_call.s) : f_call.s[i].c = " ")
                => f_ret.value = None

\* parse_direction has read "rIGHt" as a move.
C25_Witness ==
    /\ Called("parse_direction")
    /\ f_call.s = Cased(<<"r", "i", "g", "h", "t">>, {2, 3, 4})
    /\ f_ret.value = Some("Move::Right")

\* The entries that the join row i of leaderboard game lg stands for: the
\* entry it names, or without a stored id the entries of its snake on the
\* leaderboard of the game.
EntriesOfJoinRow(lg, i) ==
    LET gs == game_battlesnakes[leaderboard_games[lg].game_id][i]
    IN {e \in DOMAIN leaderboard_entries :
          IF gs.leaderboard_entry_id # NULL
          THEN e = gs.leaderboard_entry_id
          ELSE /\ leaderboard_entries[e].leaderboard_id
                    = leaderboard_games[lg].leaderboard_id
               /\ leaderboard_entries[e].battlesnake_id = gs.battlesnake_id}

\* The participants of leaderboard game lg that have an entry.
WithEntry(lg) ==
    {i \in DOMAIN game_battlesnakes[leaderboard_games[lg].game_id] :
        EntriesOfJoinRow(lg, i) # {}}

\* The entries with a committed audit row of leaderboard game lg.
Rated(lg) ==
    {r.leaderboard_entry_id :
        r \in {x \in leaderboard_game_results : x.leaderboard_game_id = lg}}

\* update_ratings for leaderboard game lg has returned.
Finished(lg) ==
    /\ job[1] = lg
    /\ pc[1] = "idle"
    /\ outcome[1] \notin {"none", "running"}

\* C27: when fewer than two participants of a match have an entry,
\* update_ratings returns success and writes nothing: its transaction
\* never holds an audit row or a changed entry, it never reaches the
\* statements that write or the commit, and no audit row of the match is
\* ever committed.
C27_FewerThanTwoEntriesWritesNothing ==
    \A lg \in DOMAIN leaderboard_games :
        Cardinality(WithEntry(lg)) < 2 =>
            /\ Rated(lg) = {}
            /\ job[1] = lg =>
                  /\ pc[1] \notin {"insert", "update", "commit"}
                  /\ tx_results[1] = {}
                  /\ tx_entries[1] = <<>>
                  /\ outcome[1] \in {"running", "Ok"}

\* update_ratings returned success for game 1, whose only participant with
\* an entry is snake 1, as the first job run.
C27_Witness ==
    /\ Finished(1)
    /\ Cardinality(WithEntry(1)) = 1
    /\ outcome[1] = "Ok"
    /\ runs = 1
    /\ leaderboard_game_results = {}
    /\ leaderboard_entries[1].games_played = 0

\* C28: a participant without an entry is skipped: once update_ratings has
\* returned for a match with at least two participants that have entries,
\* it has returned success, every participant with an entry has exactly one
\* rated entry with an audit row of the match, no participant without an
\* entry has one, and an entry has played games exactly when it has an
\* audit row.
C28_ParticipantWithoutEntrySkipped ==
    /\ \A lg \in DOMAIN leaderboard_games :
          (Finished(lg) /\ Cardinality(WithEntry(lg)) >= 2) =>
              /\ outcome[1] \in {"Ok", "Committed"}
              /\ Rated(lg) \subseteq
                    UNION {EntriesOfJoinRow(lg, i) : i \in WithEntry(lg)}
              /\ Cardinality(Rated(lg)) = Cardinality(WithEntry(lg))
              /\ \A i \in WithEntry(lg) :
                    Cardinality(Rated(lg) \cap EntriesOfJoinRow(lg, i)) = 1
    /\ \A e \in DOMAIN leaderboard_entries :
          (leaderboard_entries[e].games_played > 0) <=> (ResultRows(e) # {})

\* Game 2 is rated as the first job run: snakes 1 and 3 have audit rows and
\* a played game, and snake 9, between them, has no entry.
C28_Witness ==
    /\ Finished(2)
    /\ outcome[1] = "Committed"
    /\ runs = 1
    /\ WithEntry(2) = {1, 3}
    /\ Rated(2) = {1, 3}
    /\ leaderboard_entries[1].games_played = 1
    /\ leaderboard_entries[3].games_played = 1

\* An audit row or a changed entry of leaderboard game lg for entry e
\* answers to a join row of the game: one that names e, or one without a
\* stored id whose snake e belongs to.
AnswersToJoinRow(lg, e) ==
    \E i \in DOMAIN game_battlesnakes[leaderboard_games[lg].game_id] :
        e \in EntriesOfJoinRow(lg, i)

\* C29: with several entries of one snake on a leaderboard, update_ratings
\* writes audit rows and rating updates only for the entries that the join
\* rows name; an entry is reached through its (leaderboard, snake) pair only
\* from a join row without a stored id; every entry has played as many
\* games as it has audit rows.
C29_UpdatesTheEntriesNamedOnJoinRows ==
    /\ \A r \in leaderboard_game_results \cup tx_results[1] :
          AnswersToJoinRow(r.leaderboard_game_id, r.leaderboard_entry_id)
    /\ \A e \in DOMAIN tx_entries[1] : AnswersToJoinRow(job[1], e)
    /\ \A e \in DOMAIN leaderboard_entries :
          leaderboard_entries[e].games_played = Cardinality(ResultRows(e))

\* Game 3, whose join rows name entries 4 and 3, is rated as the first job
\* run: entry 4 of snake 2 has played, entry 2 of the same snake is as it
\* was.
C29_Witness ==
    /\ Finished(3)
    /\ outcome[1] = "Committed"
    /\ runs = 1
    /\ leaderboard_entries[2].battlesnake_id = leaderboard_entries[4].battlesnake_id
    /\ Rated(3) = {3, 4}
    /\ leaderboard_entries[4].games_played = 1
    /\ leaderboard_entries[2] = make_entry(1, 2, 30, 5)

\* C30: calculate_rating_updates returns one update per input entry, in
\* input order: update i carries the entry id, the snake id, the placement
\* and the mu and sigma of input i, and is_first_place is true exactly when
\* that placement is 1.
C30_OneUpdatePerEntryInOrder ==
    (Called("calculate_rating_updates")) =>
        LET entries == f_call.entries_with_placements
            updates_ == f_ret.value
        IN /\ Len(updates_) = Len(entries)
           /\ \A i \in 1..Len(entries) :
                 /\ updates_[i].leaderboard_entry_id = entries[i].id
                 /\ updates_[i].battlesnake_id = entries[i].entry.battlesnake_id
                 /\ updates_[i].placement = entries[i].placement
                 /\ updates_[i].old_mu = entries[i].entry.mu
                 /\ updates_[i].old_sigma = entries[i].entry.sigma
                 /\ updates_[i].is_first_place <=> (entries[i].placement = 1)

\* Updates returned for three entries whose ids are not in ascending order,
\* the first of them not placed first and the other two tied for first
\* place.
C30_Witness ==
    /\ Called("calculate_rating_updates")
    /\ Len(f_call.entries_with_placements) = 3
    /\ Len(f_ret.value) = 3
    /\ f_call.entries_with_placements[1].id > f_call.entries_with_placements[2].id
    /\ f_call.entries_with_placements[1].placement = 2
    /\ f_call.entries_with_placements[2].placement = 1
    /\ f_call.entries_with_placements[3].placement = 1
    /\ ~f_ret.value[1].is_first_place
    /\ f_ret.value[3].is_first_place

\* C33: select_match takes the entries nearest the seed, up to the jitter:
\* every selected entry is less than 5 score points farther from the seed
\* than any entry left out.
C33_NoEntryPassedOverByFiveOrMore ==
    (Selected /\ s_result.selected # <<>>) =>
        LET chosen == {s_result.selected[k].leaderboard_entry_id :
                          k \in 1..Len(s_result.selected)}
            Distance(i) == Abs(s_entries[i].display_score - s_result.seed_score)
        IN \A s, u \in 1..Len(s_entries) :
              (/\ s_entries[s].leaderboard_entry_id \in chosen
               /\ s_entries[u].leaderboard_entry_id \notin chosen)
                 => Distance(s) < Distance(u) + 5

\* A selection around a seed of score 13 that left out the entry of score
\* 18, exactly 5 away, and took an entry of score 10, which is 3 away, while
\* an entry at distance 0 was left out too: the jitter passed over a nearer
\* entry, and not for the far one.
C33_Witness ==
    /\ Selected
    /\ s_result.selected # <<>>
    /\ s_result.seed_score = 13
    /\ \E s, u, far \in 1..Len(s_entries) :
          LET chosen == {s_result.selected[k].leaderboard_entry_id :
                            k \in 1..Len(s_result.selected)}
          IN /\ s_entries[s].leaderboard_entry_id \in chosen
             /\ s_entries[s].display_score = 10
             /\ s_entries[u].leaderboard_entry_id \notin chosen
             /\ s_entries[u].display_score = 13
             /\ s_entries[far].leaderboard_entry_id \notin chosen
             /\ s_entries[far].display_score = 18

\* The k-th /move request got a MoveResponse whose move is none of the four
\* directions in any letter case.
MoveUnknown(k) ==
    /\ c_results.results[k].kind = "Response"
    /\ c_results.results[k].json.ok
    /\ to_lowercase(c_results.results[k].json.direction)
          \notin {to_string(m) : m \in {"Move::Up", "Move::Down", "Move::Left", "Move::Right"}}

\* C39: every MoveResult carries one of the four directions; for a
\* MoveResponse whose move is none of them the direction is the snake's last
\* move, or up, timed_out is false, the latency is the measured one and the
\* shout is the response's.
C39_UnknownMoveGivesFallbackKeepsShout ==
    Returned =>
        \A k \in 1..Len(c_results.results) :
            /\ c_results.returned[k].direction
                  \in {"Move::Up", "Move::Down", "Move::Left", "Move::Right"}
            /\ MoveUnknown(k) =>
                  /\ c_results.returned[k].direction = FallbackOf(SnakeOfRequest(k).id)
                  /\ ~c_results.returned[k].timed_out
                  /\ c_results.returned[k].latency_ms = Some(c_results.elapsed[k])
                  /\ c_results.returned[k].shout = c_results.results[k].json.shout

\* Two responses with an unknown move and a shout: one snake falls back to
\* its last move, the other, without one, to up, and both shouts are kept.
C39_Witness ==
    /\ Returned
    /\ Len(c_results.returned) = 2
    /\ MoveUnknown(1) /\ MoveUnknown(2)
    /\ c_results.returned[1].direction = "Move::Left"
    /\ c_results.returned[2].direction = "Move::Up"
    /\ c_results.returned[1].shout = Some("hi")
    /\ c_results.returned[2].shout = Some("hi")
    /\ c_results.returned[2].latency_ms = Some(3)

\* C38: a participant whose placement is null is rated with the number of
\* participants of the match as placement: every audit row, committed or
\* not, has the placement of its join row, or the number of join rows of
\* the match when that is null, and every entry has as many first-place
\* finishes as audit rows of placement 1, and as many other finishes as
\* other audit rows.
C38_NullPlacementRatedLast ==
    /\ \A r \in leaderboard_game_results \cup tx_results[1] :
          LET rows == game_battlesnakes[leaderboard_games[r.leaderboard_game_id].game_id]
          IN \A i \in DOMAIN rows :
                r.leaderboard_entry_id \in EntriesOfJoinRow(r.leaderboard_game_id, i)
                   => r.placement = IF rows[i].placement = NULL
                                    THEN Len(rows) ELSE rows[i].placement
    /\ \A e \in DOMAIN leaderboard_entries :
          /\ leaderboard_entries[e].first_place_finishes
                = Cardinality({r \in ResultRows(e) : r.placement = 1})
          /\ leaderboard_entries[e].non_first_finishes
                = Cardinality({r \in ResultRows(e) : r.placement # 1})

\* Game 4 is rated as the first job run: snake 3, without a placement among
\* three participants, has the placement 3 of snake 1, which finished
\* third, and no first-place finish.
C38_Witness ==
    /\ Finished(4)
    /\ outcome[1] = "Committed"
    /\ runs = 1
    /\ game_battlesnakes[4][2].placement = NULL
    /\ \E r3, r1 \in leaderboard_game_results :
          /\ r3.leaderboard_entry_id = 3 /\ r3.placement = 3
          /\ r1.leaderboard_entry_id = 1 /\ r1.placement = 3
    /\ leaderboard_entries[3].first_place_finishes = 0
    /\ leaderboard_entries[3].non_first_finishes = 1

\* Worker p waits for a row lock that worker q holds: its next statement is
\* the SELECT ... FOR UPDATE of the join row it is at, and q's transaction
\* has locked a row the statement matches.
WaitsFor(p, q) ==
    /\ pc[p] = "lock"
    /\ \E e \in EntriesOfJoinRow(job[p], idx[p]) : row_lock[e] = q

\* C37: concurrent update_ratings transactions for different matches that
\* share two or more entries never wait on each other in a cycle.
C37_NoLockWaitCycle ==
    ~ \E p, q \in Workers :
         /\ p # q
         /\ job[p] # job[q]
         /\ WaitsFor(p, q)
         /\ WaitsFor(q, p)

\* ------------------------------------------------- claims: stress tester

\* The call of update_game_statuses_sync recorded in c reports game g
\* finished.
ReportsFinished(c, g) ==
    /\ c.fn = "update_game_statuses_sync"
    /\ \E i \in 1..Len(c.statuses) :
          c.statuses[i].id = g /\ c.statuses[i].status = "finished"

\* C35: first_seen_finished_at of a game never changes once it is set; it
\* is set only by a status update that reports the game finished, to the
\* time of that update, and the first update that does sets it; a game
\* whose recorded status is finished has it set.
C35_FirstSeenFinishedSetOnce ==
    [][\A g \in DOMAIN sdb_games :
          /\ sdb_games[g].first_seen_finished_at # None
                => sdb_games'[g].first_seen_finished_at
                     = sdb_games[g].first_seen_finished_at
          /\ (/\ sdb_games[g].first_seen_finished_at = None
              /\ sdb_games'[g].first_seen_finished_at # None)
                => /\ ReportsFinished(f_call', g)
                   /\ sdb_games'[g].first_seen_finished_at = Some(f_call'.now)
          /\ (f_call' # f_call /\ ReportsFinished(f_call', g))
                => sdb_games'[g].first_seen_finished_at # None
          /\ sdb_games'[g].status = "finished"
                => sdb_games'[g].first_seen_finished_at # None]_vars

\* Game 1 was first reported finished at time 1 and the update at time 3
\* reports it finished again; game 2 has been polled and never reported
\* finished.
C35_Witness ==
    /\ sdb_games[1].first_seen_finished_at = Some(1)
    /\ f_call.fn = "update_game_statuses_sync"
    /\ f_call.now = 3
    /\ ReportsFinished(f_call, 1)
    /\ sdb_games[1].poll_count >= 3
    /\ sdb_games[2].poll_count >= 1
    /\ sdb_games[2].first_seen_finished_at = None

\* Every game of the run is recorded finished.
AllFinished == \A g \in DOMAIN sdb_games : sdb_games[g].status = "finished"

OptInAllowed ==
    /\ f_call.leaderboard_id \in DOMAIN leaderboards
    /\ ~leaderboards[f_call.leaderboard_id].disabled
    /\ f_call.battlesnake_id \in DOMAIN Battlesnakes
    /\ Battlesnakes[f_call.battlesnake_id].user_id = f_call.user_id
    /\ Battlesnakes[f_call.battlesnake_id].visibility = "Public"

\* C32: an opt-in request (API or web page) adds an entry only if the
\* leaderboard exists and is not disabled and the snake exists, belongs to the
\* requesting user and is public; the entry it adds is one for that snake on
\* that leaderboard, and a request that is rejected leaves the entries as they
\* were.
C32_OptInOnlyForOwnPublicSnake ==
    [][f_call'.fn \in {"create_entry", "join_leaderboard"} =>
         /\ leaderboard_entries' # leaderboard_entries => OptInAllowed'
         /\ f_ret'.status \in {"CREATED", "Ok"} =>
               /\ OptInAllowed'
               /\ \E id \in DOMAIN leaderboard_entries' \ DOMAIN leaderboard_entries :
                     /\ DOMAIN leaderboard_entries' = DOMAIN leaderboard_entries \cup {id}
                     /\ leaderboard_entries'[id].leaderboard_id = f_call'.leaderboard_id
                     /\ leaderboard_entries'[id].battlesnake_id = f_call'.battlesnake_id
               /\ \A e \in DOMAIN leaderboard_entries :
                     leaderboard_entries'[e] = leaderboard_entries[e]
         /\ f_ret'.status \notin {"CREATED", "Ok"} =>
               leaderboard_entries' = leaderboard_entries]_vars

\* The API opt-in of user 2 for the public snake 3 was accepted and the entry
\* it returned is in the table.
C32_Witness ==
    /\ f_call.fn = "create_entry"
    /\ f_ret.status = "CREATED"
    /\ f_ret.leaderboard_entry_id \in DOMAIN leaderboard_entries
    /\ leaderboard_entries[f_ret.leaderboard_entry_id].battlesnake_id = 3
    /\ f_call.user_id = 2

\* C34: a join (web page) that succeeds for a snake whose one entry on the
\* leaderboard is paused resumes that entry: it is no longer disabled, keeps
\* its rating and counters, and the snake has no other entry there.
C34_JoinResumesPausedEntry ==
    [][/\ f_call'.fn = "join_leaderboard"
       /\ f_ret'.status = "Ok"
       =>
       \A e \in DOMAIN leaderboard_entries :
          (/\ EntriesOfSnake(f_call'.leaderboard_id, f_call'.battlesnake_id) = {e}
           /\ leaderboard_entries[e].disabled)
          =>
          /\ leaderboard_entries'[e] = [leaderboard_entries[e] EXCEPT !.disabled = FALSE]
          /\ {x \in DOMAIN leaderboard_entries' :
                 /\ leaderboard_entries'[x].leaderboard_id = f_call'.leaderboard_id
                 /\ leaderboard_entries'[x].battlesnake_id = f_call'.battlesnake_id}
             = {e}]_vars

\* C40: after DELETE for a leaderboard and a snake has answered 204, no entry
\* of the snake on that leaderboard is active, so get_active_entries, which
\* the matchmaker selects from, has none of them.
C40_NoActiveEntryAfterOptOut ==
    (f_call.fn = "delete_entry" /\ f_ret.status = "NO_CONTENT") =>
        /\ \A e \in EntriesOfSnake(f_call.leaderboard_id, f_call.battlesnake_id) :
              leaderboard_entries[e].disabled
        /\ \A a \in Range(get_active_entries(f_call.leaderboard_id)) :
              a.battlesnake_id # f_call.battlesnake_id

============================================================================
